---- MODULE Spec2Model ----
(***************************************************************************)
(* A model of the Robotron Z9001/KC87 system emulator, src/systems/z9001.h *)
(*                                                                         *)
(* The machine instance z9001_t is the record `sys`.  The 64 KB RAM array  *)
(* is kept as an overlay: `sys.ram` maps exactly the addresses written     *)
(* since construction to their bytes; every other address still holds the  *)
(* xorshift fill of z9001_init.  Quick-load images are kept by their       *)
(* parameters (`img`) and expanded to their bytes by ImageBytes.           *)
(*                                                                         *)
(* The CPU, PIO, CTC, beeper, keyboard and memory chips (chips/*.h) are    *)
(* black boxes consumed through their tick/reset contracts.                *)
(***************************************************************************)
EXTENDS Integers, Sequences, FiniteSets, TLC

VARIABLES
    sys,        \* the live z9001_t instance
    stopped,    \* the flag *sys->debug.stopped, owned by the debugger
    snap,       \* the z9001_t a snapshot was saved into (dst), or NoSnap
    pc,         \* position of the single thread: "idle", "exec", "kctap"
    frame,      \* locals of the call in progress
    ret,        \* what the last completed call returned
    pre,        \* history: sys at entry of the current or last call
    img,        \* history: the data handed to the last z9001_quickload
    hist,       \* history: what the current or last call did
    ncalls,     \* number of public calls made so far
    nloads      \* number of z9001_quickload calls made so far

vars == <<sys, stopped, snap, pc, frame, ret, pre, img, hist, ncalls, nloads>>

----------------------------------------------------------------------------
(* Bounds of the model *)

MaxCalls == 3       \* public calls per behaviour
MaxLoads == 1       \* z9001_quickload calls per behaviour

----------------------------------------------------------------------------
(* Program constants *)

Z9001_SNAPSHOT_VERSION == 1
Z9001_DEFAULT_AUDIO_SAMPLES == 128
_Z9001_FREQUENCY == 2457600
ENTRY_ADDR == 61440                     \* 0xF000
KCC_HEADER_SIZE == 16 + 7 + (128 - 23)  \* sizeof(_z9001_kcc_header)
KCTAP_HEADER_SIZE == 16 + 1 + KCC_HEADER_SIZE
KCTAP_BLOCK == 128
ADDR_SPACE == 65536                     \* uint16_t addresses: 1<<16

TYPE_Z9001 == "Z9001"
TYPE_KC87 == "KC87"


----------------------------------------------------------------------------
(* Quick-load images.  An image is described by the fields of its header   *)
(* and its length; ImageBytes expands it to the byte sequence data.ptr.    *)

\* "\xC3KC-TAPE by AF. "
KCTAP_SIG == <<195, 75, 67, 45, 84, 65, 80, 69, 32, 98, 121, 32, 65, 70, 46, 32>>

\* 16-byte name fields used by the images
NameBytes(n) ==
    CASE n = "ascii" -> [i \in 1..16 |-> 65]
      [] n = "high"  -> [i \in 1..16 |-> IF i = 4 THEN 200 ELSE 65]
      [] n = "low"   -> [i \in 1..16 |-> IF i = 3 THEN 16 ELSE 0]

\* payload byte at payload offset i (every image carries the same pattern)
PayloadByte(i) == (3 * i + 17) % 256

\* the 128-byte _z9001_kcc_header of an image
KccHeader(im) ==
    NameBytes(im.name)
    \o << im.num_addr,
          im.load % 256, im.load \div 256,
          im.end % 256, im.end \div 256,
          im.exec % 256, im.exec \div 256 >>
    \o [i \in 1..(128 - 23) |-> 0]

ImageHeader(im) ==
    IF im.sig THEN KCTAP_SIG \o <<0>> \o KccHeader(im) ELSE KccHeader(im)

\* the bytes of an image: the header followed by payload, cut to im.size
ImageBytes(im) ==
    LET h == ImageHeader(im)
    IN  IF im.size <= Len(h) THEN SubSeq(h, 1, im.size)
        ELSE h \o [i \in 1..(im.size - Len(h)) |-> PayloadByte(i - 1)]

\* data.ptr[off]; a read past data.size is out of bounds and yields `oob`
ByteAt(d, off, oob) == IF off < Len(d) THEN d[off + 1] ELSE oob

Addr16(lo, hi) == hi * 256 + lo

----------------------------------------------------------------------------
(* Format checks *)

\* _z9001_is_valid_kcc without the check of data.size against the address range
is_valid_kcc_NoLength(d) ==
    /\ ~(Len(d) <= KCC_HEADER_SIZE)
    /\ \A i \in 0..15 : ~(d[i + 1] >= 128)
    /\ ~(d[16 + 1] > 3)
    /\ LET load_addr == Addr16(d[17 + 1], d[18 + 1])
           end_addr == Addr16(d[19 + 1], d[20 + 1])
           exec_addr == Addr16(d[21 + 1], d[22 + 1])
       IN  /\ ~(end_addr <= load_addr)
           /\ (d[16 + 1] > 2) => ~((exec_addr < load_addr) \/ (exec_addr > end_addr))

\* _z9001_is_valid_kcc without the check of the name bytes
is_valid_kcc_NoName(d) ==
    /\ ~(Len(d) <= KCC_HEADER_SIZE)
    /\ ~(d[16 + 1] > 3)
    /\ LET load_addr == Addr16(d[17 + 1], d[18 + 1])
           end_addr == Addr16(d[19 + 1], d[20 + 1])
           exec_addr == Addr16(d[21 + 1], d[22 + 1])
           required_len == (end_addr - load_addr) + KCC_HEADER_SIZE
       IN  /\ ~(end_addr <= load_addr)
           /\ (d[16 + 1] > 2) => ~((exec_addr < load_addr) \/ (exec_addr > end_addr))
           /\ ~(required_len > Len(d))

\* _z9001_is_valid_kcc, on the bytes d of the data
_z9001_is_valid_kcc(d) ==
    /\ ~(Len(d) <= KCC_HEADER_SIZE)
    /\ \A i \in 0..15 : ~(d[i + 1] >= 128)
    /\ ~(d[16 + 1] > 3)
    /\ LET load_addr == Addr16(d[17 + 1], d[18 + 1])
           end_addr == Addr16(d[19 + 1], d[20 + 1])
           exec_addr == Addr16(d[21 + 1], d[22 + 1])
           required_len == (end_addr - load_addr) + KCC_HEADER_SIZE
       IN  /\ ~(end_addr <= load_addr)
           /\ (d[16 + 1] > 2) => ~((exec_addr < load_addr) \/ (exec_addr > end_addr))
           /\ ~(required_len > Len(d))

\* _z9001_is_valid_kctap; hdr->kcc starts at offset 17
_z9001_is_valid_kctap(d) ==
    /\ ~(Len(d) <= KCTAP_HEADER_SIZE)
    /\ \A i \in 0..15 : KCTAP_SIG[i + 1] = d[i + 1]
    /\ ~(d[17 + 16 + 1] > 3)
    /\ LET load_addr == Addr16(d[17 + 17 + 1], d[17 + 18 + 1])
           end_addr == Addr16(d[17 + 19 + 1], d[17 + 20 + 1])
           exec_addr == Addr16(d[17 + 21 + 1], d[17 + 22 + 1])
           required_len == (end_addr - load_addr) + KCTAP_HEADER_SIZE
       IN  /\ ~(end_addr <= load_addr)
           /\ (d[17 + 16 + 1] > 2) => ~((exec_addr < load_addr) \/ (exec_addr > end_addr))
           /\ ~(required_len > Len(d))

----------------------------------------------------------------------------
(* Memory *)

Bit(v, i) == (v \div (2 ^ i)) % 2

\* 16-bit exclusive or
RECURSIVE Xor16(_, _, _)
Xor16(a, b, n) ==
    IF n = 0 THEN 0
    ELSE ((a + b) % 2) + 2 * Xor16(a \div 2, b \div 2, n - 1)

\* A uint32_t is kept as its two 16-bit halves <<high, low>>
Xor32(x, y) == << Xor16(x[1], y[1], 16), Xor16(x[2], y[2], 16) >>

\* x << n and x >> n of a uint32_t, for 0 < n < 16 and for 16 <= n < 32
Shl32(x, n) == << (((x[1] * (2 ^ n)) % 65536) + (x[2] \div (2 ^ (16 - n)))) % 65536,
                  (x[2] * (2 ^ n)) % 65536 >>
Shr32(x, n) == << 0, x[1] \div (2 ^ (n - 16)) >>

_z9001_xorshift32(x) ==
    LET x1 == Xor32(x, Shl32(x, 13))
        x2 == Xor32(x1, Shr32(x1, 17))
    IN  Xor32(x2, Shl32(x2, 5))

\* uint32_t r = 0x6D98302B
RamSeed == << 28056, 12331 >>

\* r after n passes of the fill loop
RECURSIVE XorshiftIter(_, _)
XorshiftIter(r, n) ==
    IF n = 0 THEN r
    ELSE LET x == _z9001_xorshift32(r)
         IN  IF x[1] >= 0 THEN XorshiftIter(x, n - 1) ELSE x

\* r after 0, 16, 32, ... passes of the fill loop: entry k + 1 is
\* XorshiftIter(RamSeed, 16 * k), tabulated to keep the recursion short
XorshiftEvery16 ==
    << <<28056, 12331>>, <<59956, 61417>>, <<47515, 9269>>, <<14086, 30102>>,
       <<24745, 45572>>, <<2405, 12823>>, <<27416, 50089>>, <<8311, 3384>>,
       <<10808, 18149>>, <<8989, 26162>>, <<3420, 34749>>, <<46165, 23411>>,
       <<4466, 54830>>, <<42732, 27691>>, <<13738, 39127>>, <<50919, 19531>>,
       <<61810, 52140>>, <<20258, 21381>>, <<55092, 42083>>, <<56941, 3565>>,
       <<14127, 1059>>, <<58181, 17572>>, <<6947, 18807>>, <<22173, 15787>>,
       <<54465, 21102>>, <<40690, 31414>>, <<27390, 29073>>, <<11799, 18327>>,
       <<28978, 40467>>, <<59187, 9754>>, <<39914, 61976>>, <<9012, 56270>>,
       <<17601, 64416>>, <<13978, 17141>>, <<56863, 38972>>, <<53354, 21593>>,
       <<9864, 59580>>, <<3243, 54760>>, <<12448, 14910>>, <<61543, 10145>>,
       <<20756, 3538>>, <<63888, 40392>>, <<26808, 49004>>, <<21066, 28045>>,
       <<19548, 46710>>, <<10269, 63882>>, <<40195, 47016>>, <<55068, 4879>>,
       <<57009, 25215>>, <<66, 62686>>, <<25911, 31837>>, <<25304, 7832>>,
       <<53375, 51104>>, <<41121, 32551>>, <<279, 21668>>, <<5966, 64330>>,
       <<7765, 65481>>, <<282, 14722>>, <<10949, 51364>>, <<24514, 18014>>,
       <<9605, 51882>>, <<59444, 56797>>, <<10052, 38290>>, <<49910, 32274>>,
       <<45213, 54893>>, <<53710, 9646>>, <<2029, 26419>>, <<30721, 8132>>,
       <<51317, 55837>>, <<21142, 30708>>, <<42552, 37947>>, <<59568, 5580>>,
       <<25504, 16709>>, <<56658, 64006>>, <<48223, 49001>>, <<12598, 34127>>,
       <<36888, 65128>>, <<45721, 16434>>, <<19402, 26899>>, <<28754, 35463>>,
       <<4047, 5225>>, <<3221, 11882>>, <<59801, 1491>>, <<10159, 49782>>,
       <<53134, 59246>>, <<9334, 60655>>, <<42924, 55644>>, <<6346, 27704>>,
       <<54509, 45176>>, <<43827, 39237>>, <<29828, 25295>>, <<12706, 46373>>,
       <<30668, 31214>>, <<18040, 61761>>, <<38974, 37688>>, <<2161, 31562>>,
       <<55604, 47498>>, <<30942, 1181>>, <<9488, 58793>>, <<20532, 16014>>,
       <<60491, 37461>>, <<29815, 16422>>, <<36792, 31162>>, <<39688, 62237>>,
       <<17464, 30040>>, <<25618, 25967>>, <<31672, 38323>>, <<21845, 28310>>,
       <<28428, 25754>>, <<24641, 10015>>, <<29061, 30608>>, <<26122, 16396>>,
       <<1753, 45515>>, <<54078, 37555>>, <<29060, 56259>>, <<28202, 61029>>,
       <<51387, 30065>>, <<32439, 26890>>, <<54754, 4484>>, <<7554, 37607>>,
       <<25871, 28853>>, <<2375, 20179>>, <<36921, 61299>>, <<42118, 5859>>,
       <<43631, 5311>>, <<4161, 29534>>, <<19571, 59175>>, <<11016, 32020>>,
       <<24461, 10669>>, <<34045, 43949>>, <<61916, 44130>>, <<58099, 39334>>,
       <<12931, 49488>>, <<49703, 36930>>, <<30151, 5190>>, <<42077, 52750>>,
       <<43317, 50106>>, <<51699, 26020>>, <<1744, 8010>>, <<21878, 64651>>,
       <<63690, 17582>>, <<39095, 28403>>, <<64965, 15671>>, <<56156, 47966>>,
       <<55921, 48084>>, <<48204, 51982>>, <<43184, 11625>>, <<12328, 64294>>,
       <<10391, 12428>>, <<61886, 41764>>, <<13084, 41708>>, <<11780, 19809>>,
       <<34355, 19023>>, <<4325, 26298>>, <<24083, 43481>>, <<16718, 4368>>,
       <<4641, 21278>>, <<49885, 40257>>, <<40745, 57327>>, <<62298, 60209>>,
       <<14557, 20687>>, <<22000, 40296>>, <<40891, 25738>>, <<34100, 26785>>,
       <<19980, 1786>>, <<42998, 61685>>, <<10487, 41283>>, <<49043, 56771>>,
       <<10976, 51746>>, <<17056, 24004>>, <<34718, 39132>>, <<2825, 25124>>,
       <<32026, 5650>>, <<22025, 59588>>, <<44882, 42040>>, <<51339, 55277>>,
       <<13182, 11280>>, <<56414, 53039>>, <<63818, 22975>>, <<44249, 30669>>,
       <<62980, 5036>>, <<40027, 28730>>, <<24793, 23569>>, <<49864, 43605>>,
       <<16042, 11682>>, <<57761, 24310>>, <<52345, 59766>>, <<57400, 61065>>,
       <<30731, 17847>>, <<26814, 59840>>, <<14237, 57504>>, <<52128, 17403>>,
       <<54977, 23894>>, <<51485, 12927>>, <<13797, 52652>>, <<27006, 3479>>,
       <<11081, 44474>>, <<59411, 16110>>, <<50875, 56788>>, <<44327, 1056>>,
       <<9896, 41487>>, <<33898, 8009>>, <<52098, 20976>>, <<14018, 23389>>,
       <<48917, 7642>>, <<54334, 27128>>, <<972, 23903>>, <<23895, 33213>>,
       <<6375, 60604>>, <<38644, 7194>>, <<63932, 45706>>, <<18405, 31728>>,
       <<12053, 35197>>, <<2837, 60284>>, <<57997, 31426>>, <<45704, 22472>>,
       <<47543, 18255>>, <<460, 21854>>, <<53878, 63340>>, <<24787, 31625>>,
       <<23563, 63972>>, <<26520, 57802>>, <<47045, 34169>>, <<52662, 23324>>,
       <<50726, 62536>>, <<37596, 56087>>, <<39036, 61603>>, <<61691, 43472>>,
       <<27079, 34991>>, <<36837, 534>>, <<47279, 60046>>, <<57011, 30666>>,
       <<27503, 4053>>, <<5453, 11595>>, <<3528, 26991>>, <<56159, 24075>>,
       <<46600, 55353>>, <<64379, 60222>>, <<21513, 46836>>, <<27154, 47038>>,
       <<40364, 5528>>, <<52112, 10926>>, <<1255, 7998>>, <<64467, 58582>>,
       <<26023, 31588>>, <<20681, 57926>>, <<58132, 12467>>, <<15041, 26385>>,
       <<29723, 44365>>, <<11831, 13417>>, <<12990, 58412>>, <<28041, 19392>>,
       <<3673, 59767>>, <<11867, 1508>>, <<36568, 14971>>, <<19169, 46255>>,
       <<21525, 31395>>, <<40791, 13805>>, <<26904, 46109>>, <<1129, 2815>>,
       <<45936, 56790>>, <<12160, 24561>>, <<28161, 19954>>, <<251, 33830>>,
       <<31777, 45883>>, <<50319, 13971>>, <<47145, 10370>>, <<55759, 51040>>,
       <<39985, 20179>>, <<58895, 59499>>, <<51135, 785>>, <<64256, 60240>>,
       <<64096, 38590>>, <<17051, 5800>>, <<8276, 63473>>, <<41945, 16624>>,
       <<60903, 14275>>, <<27388, 8234>>, <<58095, 288>>, <<17527, 11980>>,
       <<54329, 5318>>, <<44403, 18829>>, <<17698, 38977>>, <<33257, 26029>>,
       <<19308, 27973>>, <<42461, 21756>>, <<34587, 6516>>, <<61025, 46027>>,
       <<33833, 24515>>, <<49308, 17775>>, <<63063, 14501>>, <<52130, 48933>>,
       <<56309, 63667>>, <<58686, 1621>>, <<30685, 29171>>, <<25194, 5659>>,
       <<55444, 1206>>, <<8948, 52505>>, <<40696, 21804>>, <<40192, 64258>>,
       <<39488, 32779>>, <<46628, 10725>>, <<6079, 3392>>, <<50614, 63403>>,
       <<7972, 18597>>, <<23909, 17592>>, <<53743, 47645>>, <<32997, 33866>>,
       <<14852, 54508>>, <<3446, 57358>>, <<58075, 20690>>, <<38072, 46559>>,
       <<35681, 58860>>, <<14232, 56014>>, <<37796, 6415>>, <<51141, 23524>>,
       <<32145, 8840>>, <<24389, 44488>>, <<50205, 39891>>, <<23327, 29483>>,
       <<14356, 22479>>, <<25151, 58161>>, <<12406, 40617>>, <<13804, 14481>>,
       <<26063, 32780>>, <<35934, 25489>>, <<25465, 64167>>, <<45518, 39110>>,
       <<42240, 48934>>, <<39900, 34532>>, <<51155, 39613>>, <<56223, 39136>>,
       <<35028, 26941>>, <<39697, 18110>>, <<40825, 33502>>, <<57991, 22168>>,
       <<56145, 36053>>, <<46592, 29582>>, <<51626, 2438>>, <<1667, 16206>>,
       <<37706, 65057>>, <<30005, 22970>>, <<48794, 16821>>, <<46730, 33868>>,
       <<27553, 21589>>, <<55503, 49068>>, <<5412, 11446>>, <<10576, 21392>>,
       <<22091, 45134>>, <<33694, 48312>>, <<17190, 13201>>, <<18203, 23630>>,
       <<8729, 7447>>, <<47672, 60385>>, <<52052, 6936>>, <<56448, 39799>>,
       <<14447, 7549>>, <<62251, 47734>>, <<54981, 29194>>, <<58224, 28211>>,
       <<46343, 18419>>, <<51037, 18850>>, <<20951, 62054>>, <<49359, 63595>>,
       <<6077, 25526>>, <<2907, 22954>>, <<42882, 56978>>, <<35633, 49082>>,
       <<57233, 53654>>, <<31481, 53059>>, <<12555, 55536>>, <<45725, 15508>>,
       <<42720, 18014>>, <<60820, 24511>>, <<25788, 24785>>, <<50716, 35445>>,
       <<60841, 59823>>, <<10379, 16313>>, <<27005, 2008>>, <<53833, 37994>>,
       <<32172, 15738>>, <<59001, 26901>>, <<10512, 16328>>, <<11760, 39452>>,
       <<44329, 30033>>, <<61537, 33996>>, <<16573, 30084>>, <<17391, 48186>>,
       <<27491, 12760>>, <<36580, 56623>>, <<47415, 30774>>, <<48424, 41407>>,
       <<49846, 17634>>, <<24355, 46375>>, <<46213, 44195>>, <<28476, 52733>>,
       <<53191, 18967>>, <<27530, 36146>>, <<12097, 58601>>, <<28956, 22156>>,
       <<33266, 35503>>, <<2723, 61660>>, <<61908, 56812>>, <<29768, 48771>>,
       <<15832, 5198>>, <<4942, 64784>>, <<10851, 6756>>, <<13172, 59812>>,
       <<4112, 39038>>, <<27373, 30702>>, <<36610, 34763>>, <<55567, 50965>>,
       <<54986, 45483>>, <<39042, 16137>>, <<9415, 10010>>, <<5756, 26456>>,
       <<46281, 28872>>, <<34891, 50598>>, <<9647, 8949>>, <<4077, 60634>>,
       <<16724, 37478>>, <<27617, 50541>>, <<14078, 51993>>, <<37959, 24499>>,
       <<36075, 6789>>, <<49165, 42747>>, <<40510, 32490>>, <<30098, 26466>>,
       <<60907, 57360>>, <<4594, 34994>>, <<28441, 35768>>, <<39315, 49878>>,
       <<31611, 64485>>, <<8809, 56094>>, <<33704, 6290>>, <<24940, 18097>>,
       <<34212, 36634>>, <<53342, 13725>>, <<62317, 25049>>, <<2177, 60919>>,
       <<51613, 14777>>, <<14654, 36327>>, <<1985, 57609>>, <<16331, 37613>>,
       <<52546, 44700>>, <<5592, 61119>>, <<12168, 15971>>, <<45551, 19064>>,
       <<8679, 27646>>, <<9353, 22705>>, <<19134, 4081>>, <<58433, 26285>>,
       <<63309, 14320>>, <<39212, 14693>>, <<55124, 30997>>, <<55318, 4486>>,
       <<58329, 30765>>, <<54322, 42325>>, <<3516, 53557>>, <<35770, 78>>,
       <<2246, 5904>>, <<41165, 56078>>, <<8408, 47389>>, <<59100, 29645>>,
       <<52056, 23736>>, <<43755, 59578>>, <<62962, 32802>>, <<31197, 11425>>,
       <<39111, 25982>>, <<58884, 44176>>, <<34906, 38445>>, <<52205, 13269>>,
       <<14305, 36808>>, <<63349, 1469>>, <<4153, 14242>>, <<37078, 54202>>,
       <<40876, 60591>>, <<63476, 6313>>, <<41880, 48967>>, <<15956, 5340>>,
       <<48258, 61625>>, <<42513, 17463>>, <<1991, 33575>>, <<27961, 24494>>,
       <<45876, 4693>>, <<16462, 53702>>, <<52251, 35230>>, <<522, 11855>>,
       <<13727, 39377>>, <<28735, 17918>>, <<6895, 42878>>, <<6092, 4273>>,
       <<60276, 55302>>, <<57000, 49829>>, <<21907, 26475>>, <<40972, 36137>>,
       <<5678, 16286>>, <<42614, 40492>>, <<6148, 21298>>, <<47142, 65328>>,
       <<56843, 15556>>, <<39449, 20758>>, <<36945, 59490>>, <<44857, 12411>>,
       <<46265, 15355>>, <<37919, 61407>>, <<21421, 42186>>, <<14670, 43047>>,
       <<20073, 32980>>, <<63405, 7916>>, <<38668, 6503>>, <<3791, 51313>>,
       <<46975, 35175>>, <<31927, 22019>>, <<22160, 57614>>, <<34755, 33144>>,
       <<21126, 34471>>, <<10335, 52511>>, <<9741, 22993>>, <<50408, 12829>>,
       <<48682, 50565>>, <<38812, 7127>>, <<36104, 21757>>, <<16251, 16133>>,
       <<42540, 50769>>, <<34147, 4728>>, <<35121, 33423>>, <<42512, 55802>>,
       <<23710, 38136>>, <<28373, 14740>>, <<16836, 48774>>, <<28257, 49863>>,
       <<18516, 40469>>, <<42821, 1770>>, <<62723, 27848>>, <<56400, 16581>>,
       <<47943, 47957>>, <<44687, 3174>>, <<31154, 49886>>, <<23835, 11277>>,
       <<6876, 9052>>, <<37786, 30606>>, <<39379, 28963>>, <<49490, 7972>>,
       <<34734, 19774>>, <<64110, 62871>>, <<19881, 49367>>, <<58471, 54347>>,
       <<61078, 8631>>, <<64777, 30119>>, <<9233, 51104>>, <<25838, 41987>>,
       <<29693, 58612>>, <<9059, 19481>>, <<9955, 41769>>, <<39086, 8663>>,
       <<53983, 12750>>, <<12590, 42335>>, <<33071, 48028>>, <<35523, 61290>>,
       <<8108, 12106>>, <<5003, 28345>>, <<27999, 29327>>, <<19816, 3066>>,
       <<59098, 33072>>, <<24574, 50783>>, <<46895, 35504>>, <<11632, 54191>>,
       <<59098, 1588>>, <<59892, 16017>>, <<14934, 4854>>, <<48082, 63536>>,
       <<8916, 42120>>, <<29449, 5110>>, <<22153, 47082>>, <<13677, 10498>>,
       <<424, 49874>>, <<816, 34359>>, <<50382, 20877>>, <<44718, 44526>>,
       <<5091, 63825>>, <<57373, 5738>>, <<26355, 24487>>, <<3779, 5138>>,
       <<17067, 3047>>, <<35205, 60981>>, <<62178, 28314>>, <<36300, 2429>>,
       <<29583, 42531>>, <<63453, 62253>>, <<18125, 53241>>, <<28028, 51914>>,
       <<47165, 37100>>, <<52997, 2255>>, <<1967, 49422>>, <<39123, 59696>>,
       <<34534, 50270>>, <<24084, 7623>>, <<59819, 32294>>, <<7856, 28496>>,
       <<43434, 41088>>, <<59790, 42235>>, <<31825, 49496>>, <<51128, 50984>>,
       <<53885, 60085>>, <<7729, 4863>>, <<19139, 30064>>, <<18537, 31768>>,
       <<19940, 36635>>, <<33909, 10520>>, <<52139, 60139>>, <<6733, 17494>>,
       <<24715, 17426>>, <<65095, 10709>>, <<17807, 34700>>, <<57132, 64652>>,
       <<41555, 34662>>, <<26922, 41323>>, <<39798, 9527>>, <<54002, 56950>>,
       <<17623, 49422>>, <<37872, 3110>>, <<17097, 59419>>, <<46796, 23726>>,
       <<29165, 43323>>, <<41676, 4402>>, <<48654, 21044>>, <<19138, 62764>>,
       <<39677, 52636>>, <<25349, 55265>>, <<45218, 42124>>, <<12423, 16559>>,
       <<2614, 4330>>, <<52057, 38800>>, <<4433, 35827>>, <<33749, 65240>>,
       <<6849, 53840>>, <<20220, 37077>>, <<45922, 17273>>, <<30804, 58395>>,
       <<15036, 45342>>, <<47768, 7391>>, <<23348, 128>>, <<22681, 35201>>,
       <<48782, 32419>>, <<61016, 53154>>, <<11520, 45743>>, <<42940, 2813>>,
       <<53139, 14930>>, <<11906, 35683>>, <<32232, 58725>>, <<38268, 19010>>,
       <<3766, 43910>>, <<57506, 31533>>, <<18259, 59254>>, <<8038, 4714>>,
       <<10435, 6554>>, <<49033, 1476>>, <<13626, 37141>>, <<28431, 40882>>,
       <<17160, 39290>>, <<41952, 29028>>, <<11480, 14125>>, <<32940, 43513>>,
       <<41330, 1009>>, <<49605, 56158>>, <<45368, 28072>>, <<19019, 52879>>,
       <<26852, 8250>>, <<23274, 12904>>, <<38493, 59167>>, <<28697, 1587>>,
       <<25695, 40627>>, <<49516, 10531>>, <<46338, 34230>>, <<8176, 18574>>,
       <<5842, 55635>>, <<28043, 20365>>, <<51024, 12588>>, <<5061, 30129>>,
       <<37765, 11295>>, <<31264, 62590>>, <<50322, 34323>>, <<43285, 3527>>,
       <<31362, 35844>>, <<30639, 60941>>, <<51489, 47420>>, <<51280, 5747>>,
       <<13149, 26112>>, <<36000, 13279>>, <<51980, 28982>>, <<36361, 13855>>,
       <<21139, 55539>>, <<36726, 54214>>, <<55451, 41470>>, <<60002, 42034>>,
       <<14428, 38131>>, <<11541, 20884>>, <<34427, 41845>>, <<7238, 59348>>,
       <<5321, 30024>>, <<9309, 16815>>, <<44239, 11633>>, <<39154, 63637>>,
       <<52254, 35693>>, <<44365, 18192>>, <<20858, 51543>>, <<36798, 59415>>,
       <<18476, 58633>>, <<28910, 30276>>, <<52593, 34202>>, <<39783, 31498>>,
       <<25409, 33506>>, <<44324, 65229>>, <<29792, 5564>>, <<5375, 32356>>,
       <<54774, 12899>>, <<11686, 15294>>, <<26145, 58546>>, <<83, 13740>>,
       <<47525, 46739>>, <<40738, 28919>>, <<28463, 19366>>, <<18039, 29627>>,
       <<50924, 61330>>, <<5246, 33662>>, <<23039, 54163>>, <<50354, 47290>>,
       <<23075, 40138>>, <<57941, 7945>>, <<33123, 6791>>, <<2020, 49388>>,
       <<14481, 36167>>, <<34881, 15609>>, <<34904, 29050>>, <<2537, 49876>>,
       <<44753, 1314>>, <<22921, 11771>>, <<2539, 34763>>, <<4765, 34023>>,
       <<2551, 39042>>, <<9971, 33494>>, <<12293, 4011>>, <<17541, 29221>>,
       <<54029, 2386>>, <<58054, 48664>>, <<1345, 37291>>, <<45495, 58301>>,
       <<54920, 34654>>, <<29273, 51841>>, <<12648, 60165>>, <<43982, 54508>>,
       <<60997, 64804>>, <<31164, 1007>>, <<36009, 56420>>, <<17496, 9549>>,
       <<46848, 33490>>, <<49314, 30178>>, <<34363, 12589>>, <<42849, 19998>>,
       <<3475, 15380>>, <<21648, 62893>>, <<33572, 48515>>, <<24623, 54580>>,
       <<56441, 61935>>, <<19472, 52752>>, <<38205, 1292>>, <<22318, 60900>>,
       <<8283, 34446>>, <<25774, 55433>>, <<60936, 16033>>, <<34989, 54845>>,
       <<3813, 63977>>, <<44553, 9976>>, <<10120, 17465>>, <<63601, 20910>>,
       <<40305, 15470>>, <<35084, 38622>>, <<50186, 33368>>, <<55966, 31543>>,
       <<45950, 16016>>, <<25730, 29300>>, <<50206, 17225>>, <<37735, 6516>>,
       <<23578, 15944>>, <<52045, 59564>>, <<21080, 30712>>, <<42099, 12751>>,
       <<31516, 32770>>, <<48246, 46961>>, <<24344, 61510>>, <<64316, 2318>>,
       <<25501, 55123>>, <<34240, 48618>>, <<26036, 10862>>, <<39933, 51267>>,
       <<9792, 61044>>, <<6307, 58002>>, <<17998, 26632>>, <<57002, 54942>>,
       <<9130, 38844>>, <<63985, 44353>>, <<63885, 20712>>, <<11033, 63567>>,
       <<42569, 27506>>, <<18475, 5844>>, <<9171, 54580>>, <<7635, 15429>>,
       <<29548, 15842>>, <<22134, 41164>>, <<59332, 40277>>, <<3862, 41425>>,
       <<63749, 31437>>, <<39270, 16713>>, <<44216, 33383>>, <<48359, 2788>>,
       <<56097, 46386>>, <<47072, 35547>>, <<35608, 16013>>, <<42113, 14029>>,
       <<34734, 33490>>, <<4171, 27917>>, <<39307, 10469>>, <<40704, 25767>>,
       <<15589, 23719>>, <<59473, 48988>>, <<14135, 51813>>, <<57066, 13788>>,
       <<39628, 25327>>, <<4604, 40210>>, <<25096, 14838>>, <<5317, 35837>>,
       <<18892, 1923>>, <<17879, 31997>>, <<56537, 26210>>, <<5401, 26914>>,
       <<13574, 32154>>, <<11682, 58529>>, <<21437, 12839>>, <<29169, 62331>>,
       <<58371, 50692>>, <<49801, 38167>>, <<28615, 34171>>, <<21519, 38548>>,
       <<57505, 33427>>, <<17989, 42821>>, <<60984, 25644>>, <<4960, 38414>>,
       <<18565, 31238>>, <<49159, 3131>>, <<19197, 7629>>, <<37369, 28546>>,
       <<16833, 44043>>, <<59319, 25259>>, <<25493, 60235>>, <<17612, 60127>>,
       <<26323, 31710>>, <<50859, 13737>>, <<17115, 46775>>, <<4172, 35109>>,
       <<25568, 53401>>, <<56529, 19394>>, <<49405, 189>>, <<26462, 49736>>,
       <<39125, 57925>>, <<7907, 45393>>, <<62593, 57465>>, <<23095, 56250>>,
       <<42774, 163>>, <<33367, 11460>>, <<45097, 29472>>, <<27164, 1700>>,
       <<50792, 16103>>, <<37968, 11169>>, <<7709, 3587>>, <<53758, 3665>>,
       <<57912, 6212>>, <<4753, 2984>>, <<7130, 4924>>, <<446, 44144>>,
       <<57100, 49380>>, <<581, 5338>>, <<7959, 15995>>, <<59340, 48286>>,
       <<31527, 9915>>, <<23607, 24299>>, <<46509, 50765>>, <<19797, 4588>>,
       <<51682, 34729>>, <<56720, 12121>>, <<59698, 14591>>, <<5685, 28977>>,
       <<3945, 31916>>, <<56627, 41028>>, <<55666, 61437>>, <<29855, 47263>>,
       <<31558, 60391>>, <<56886, 59802>>, <<1658, 6046>>, <<9991, 60070>>,
       <<58364, 42583>>, <<53536, 60450>>, <<53919, 20374>>, <<43527, 51420>>,
       <<55234, 21727>>, <<64097, 21812>>, <<23341, 8242>>, <<39119, 19451>>,
       <<35761, 50241>>, <<22347, 15975>>, <<3936, 48985>>, <<63451, 25497>>,
       <<55115, 8261>>, <<26821, 38506>>, <<2291, 60679>>, <<28927, 34959>>,
       <<59968, 10683>>, <<22941, 10821>>, <<47297, 60149>>, <<36207, 22424>>,
       <<21319, 49759>>, <<49864, 13037>>, <<9310, 21832>>, <<31161, 19801>>,
       <<2991, 47185>>, <<29715, 3366>>, <<31786, 52078>>, <<1940, 31552>>,
       <<2071, 56729>>, <<31900, 52779>>, <<117, 34953>>, <<58325, 31858>>,
       <<27178, 47632>>, <<23631, 41251>>, <<23599, 21643>>, <<3228, 18108>>,
       <<25946, 24330>>, <<34064, 10341>>, <<4269, 12362>>, <<61641, 19279>>,
       <<64542, 46504>>, <<57891, 33280>>, <<34636, 59396>>, <<2105, 4242>>,
       <<32677, 27024>>, <<18333, 35104>>, <<54149, 1221>>, <<50941, 4767>>,
       <<46363, 16725>>, <<30117, 16130>>, <<36397, 30721>>, <<3387, 52045>>,
       <<30731, 45541>>, <<54778, 31803>>, <<20055, 1981>>, <<5215, 34787>>,
       <<58015, 28888>>, <<41974, 51163>>, <<8664, 58898>>, <<50101, 22738>>,
       <<52230, 47308>>, <<19674, 53715>>, <<10379, 41976>>, <<13664, 4260>>,
       <<54942, 24464>>, <<14492, 10381>>, <<37492, 2347>>, <<32756, 55159>>,
       <<59398, 50692>>, <<4389, 38869>>, <<45919, 2235>>, <<63200, 18867>>,
       <<49521, 7733>>, <<5641, 27522>>, <<8327, 22414>>, <<52240, 14959>>,
       <<31020, 50936>>, <<27359, 26788>>, <<2543, 57913>>, <<32333, 786>>,
       <<26990, 38255>>, <<1056, 38641>>, <<33389, 57528>>, <<46542, 39696>>,
       <<31595, 64274>>, <<7030, 62803>>, <<33565, 45025>>, <<28322, 18528>>,
       <<24154, 4762>>, <<50680, 43094>>, <<63371, 28250>>, <<10398, 20559>>,
       <<54259, 49602>>, <<44492, 61573>>, <<318, 63799>>, <<42882, 37117>>,
       <<22516, 16026>>, <<11643, 31429>>, <<51767, 23615>>, <<17764, 63262>>,
       <<63638, 10904>>, <<39913, 7318>>, <<65078, 4009>>, <<64126, 43985>>,
       <<17875, 10872>>, <<31429, 9399>>, <<38808, 60415>>, <<3679, 63383>>,
       <<20189, 12310>>, <<45413, 48242>>, <<12359, 8079>>, <<39641, 10383>>,
       <<18528, 7416>>, <<32613, 35882>>, <<44149, 33626>>, <<26221, 27760>>,
       <<3784, 30925>>, <<9186, 49381>>, <<51388, 29094>>, <<6473, 47089>>,
       <<27373, 33195>>, <<16856, 27326>>, <<33140, 58850>>, <<3432, 26822>>,
       <<14100, 34467>> >>

\* the byte z9001_init leaves in sys->ram[a]: byte a % 4 of the (a / 4 + 1)-th
\* xorshift value
RamFill(a) ==
    LET n == (a \div 4) + 1
        r == XorshiftIter(XorshiftEvery16[(n \div 16) + 1], n % 16)
    IN  CASE a % 4 = 0 -> r[2] % 256
          [] a % 4 = 1 -> r[2] \div 256
          [] a % 4 = 2 -> r[1] % 256
          [] a % 4 = 3 -> r[1] \div 256

\* the memory map of a KC87 built without the colour RAM at 0xE800
MemoryMap_NoColorRam(type, basic) ==
    << [layer |-> 0, addr |-> 0, size |-> 49152, ram |-> TRUE],
       [layer |-> 1, addr |-> 49152, size |-> 8192, ram |-> FALSE],
       [layer |-> 1, addr |-> 57344, size |-> 8192, ram |-> FALSE],
       [layer |-> 0, addr |-> 60416, size |-> 1024, ram |-> TRUE] >>

\* the memory map z9001_init builds, in registration order
MemoryMap(type, basic) ==
    IF type = TYPE_Z9001
    THEN << [layer |-> 0, addr |-> 0, size |-> 32768, ram |-> TRUE] >>
         \o (IF basic THEN << [layer |-> 1, addr |-> 49152, size |-> 10240, ram |-> FALSE] >>
             ELSE << >>)
         \o << [layer |-> 1, addr |-> 61440, size |-> 2048, ram |-> FALSE],
               [layer |-> 1, addr |-> 63488, size |-> 2048, ram |-> FALSE],
               [layer |-> 0, addr |-> 60416, size |-> 1024, ram |-> TRUE] >>
    ELSE << [layer |-> 0, addr |-> 0, size |-> 49152, ram |-> TRUE],
            [layer |-> 0, addr |-> 59392, size |-> 1024, ram |-> TRUE],
            [layer |-> 1, addr |-> 49152, size |-> 8192, ram |-> FALSE],
            [layer |-> 1, addr |-> 57344, size |-> 8192, ram |-> FALSE],
            [layer |-> 0, addr |-> 60416, size |-> 1024, ram |-> TRUE] >>

Covers(e, a) == e.addr <= a /\ a < e.addr + e.size

\* the CPU-visible mapping of address a: the covering entry of the lowest
\* layer number; "none" when the address is unmapped
Resolve(map, a) ==
    LET hits == {i \in 1..Len(map) : Covers(map[i], a)}
    IN  IF hits = {} THEN "none"
        ELSE LET w == CHOOSE i \in hits : \A j \in hits : map[i].layer <= map[j].layer
             IN  IF map[w].ram THEN "ram" ELSE "rom"

Writable(mem, a) == Resolve(mem.map, a) = "ram"

\* sys->ram[a] of the overlay
RamByte(ram, a) == IF a \in DOMAIN ram THEN ram[a] ELSE RamFill(a)

\* sys->rom[a - 0xC000]: every ROM mapping of z9001_init puts sys->rom[0] at
\* 0xC000; rom stands for the images the host supplied
RomByte(rom, a) == (rom + ((a - 49152) * 53) + 17) % 256

\* mem_rd: RAM pages read sys->ram, ROM pages sys->rom, unmapped pages 0xFF
mem_rd(s, a) ==
    CASE Resolve(s.mem.map, a) = "ram" -> RamByte(s.ram, a)
      [] Resolve(s.mem.map, a) = "rom" -> RomByte(s.rom, a)
      [] OTHER -> 255

\* mem_wr on the RAM overlay: only a writable page takes the byte
mem_wr(mem, ram, a, v) ==
    IF Writable(mem, a)
    THEN IF a \in DOMAIN ram THEN [ram EXCEPT ![a] = v] ELSE (a :> v) @@ ram
    ELSE ram

----------------------------------------------------------------------------
(* Pins.  The 64-bit pin word is kept as its address bus, its data bus,    *)
(* the set of asserted control and chip-specific pins, and the PIO port    *)
(* pins PA/PB.                                                             *)

ZeroPins == [addr |-> 0, data |-> 0, ctrl |-> {}, pa |-> 0, pb |-> 0]

\* the pins below bit 40, which belong to the CPU
Z80_PINS == {"M1", "MREQ", "IORQ", "RD", "WR", "HALT", "INT", "IEIO", "RETI"}

\* pins &= Z80_PIN_MASK
MaskZ80(p) == [p EXCEPT !.ctrl = @ \cap Z80_PINS, !.pa = 0, !.pb = 0]

AddrBit(p, n) == (p.addr \div (2 ^ n)) % 2 = 1

\* (pins & (_Z9001_IO_SEL_MASK|A5|A4|A3)) == (_Z9001_IO_SEL_PINS|sel), where
\* a7_a3 is the value of the address bits A7..A3 of the pattern
IoSelected(p, a7_a3) ==
    /\ "IORQ" \in p.ctrl
    /\ "M1" \notin p.ctrl
    /\ (p.addr \div 8) % 32 = a7_a3

CTC_SEL == 16 + 0       \* Z80_A7              : ports 0x80..0x87
PIO1_SEL == 16 + 1      \* Z80_A7|Z80_A3       : ports 0x88..0x8F
PIO2_SEL == 16 + 2      \* Z80_A7|Z80_A4       : ports 0x90..0x97

Set(p, names) == [p EXCEPT !.ctrl = @ \cup names]

----------------------------------------------------------------------------
(* Black-box chips, by their contracts *)

\* CPU registers after power-on and after reset
CpuPowerOn ==
    [a |-> 255, f |-> 255, bc |-> 65535, de |-> 65535, hl |-> 65535,
     af2 |-> 65535, bc2 |-> 65535, de2 |-> 65535, hl2 |-> 65535,
     pc |-> 0, step |-> "fetch"]

\* z80_prefetch: the next tick fetches the opcode at new_pc; returns pins 0
z80_prefetch(cpu, new_pc) == [cpu EXCEPT !.pc = new_pc, !.step = "fetch"]

\* bus cycles the CPU may run after an opcode fetch
CpuCycles ==
    { [kind |-> "mwr", addr |-> 60416, data |-> 65],    \* 0xEC00 <- 'A'
      [kind |-> "mwr", addr |-> 61440, data |-> 65],    \* 0xF000 (ROM)
      [kind |-> "iowr", addr |-> 128, data |-> 5],      \* CTC port 0x80
      [kind |-> "none", addr |-> 0, data |-> 0] }

\* z80_tick: an opcode fetch at pc when one is due, else the bus cycle cyc
z80_tick(cpu, cyc) ==
    IF cpu.step = "fetch"
    THEN [cpu |-> [cpu EXCEPT !.pc = (@ + 1) % ADDR_SPACE, !.step = "exec"],
          pins |-> [ZeroPins EXCEPT !.addr = cpu.pc, !.ctrl = {"M1", "MREQ", "RD"}]]
    ELSE [cpu |-> [cpu EXCEPT !.step = "fetch"],
          pins |-> [ZeroPins EXCEPT !.addr = cyc.addr, !.data = cyc.data,
                        !.ctrl = CASE cyc.kind = "mwr" -> {"MREQ", "WR"}
                                   [] cyc.kind = "mrd" -> {"MREQ", "RD"}
                                   [] cyc.kind = "iord" -> {"IORQ", "RD"}
                                   [] cyc.kind = "intack" -> {"M1", "IORQ"}
                                   [] cyc.kind = "iowr" -> {"IORQ", "WR"}
                                   [] OTHER -> {}]]

\* z80pio_init, z80pio_reset: ports are inputs, nothing programmed
PioPowerOn == [programmed |-> FALSE, out_a |-> 255, out_b |-> 255]

\* z80pio_tick: a selected write programs the chip as an output; the port pins
\* of a programmed chip carry its output registers, those of an input port
\* keep what is read in; IEIO is passed on unless the chip requests or
\* services an interrupt (blk), which holds IEIO low for the devices behind it
z80pio_tick(pio, p, blk) ==
    LET sel == "PIO_CE" \in p.ctrl /\ "IORQ" \in p.ctrl /\ "WR" \in p.ctrl
        pio2 == IF sel
                THEN [pio EXCEPT !.programmed = TRUE,
                                 !.out_a = IF "PIO_BASEL" \in p.ctrl THEN @ ELSE p.data,
                                 !.out_b = IF "PIO_BASEL" \in p.ctrl THEN p.data ELSE @]
                ELSE pio
        q == IF blk THEN [p EXCEPT !.ctrl = @ \ {"IEIO"}] ELSE p
    IN  [pio |-> pio2,
         pins |-> IF pio2.programmed
                  THEN [q EXCEPT !.pa = pio2.out_a, !.pb = pio2.out_b] ELSE q]

\* z80ctc_init, z80ctc_reset: all channels stopped
CtcPowerOn == [running |-> FALSE]

\* z80ctc_tick: a selected write starts the channels; a running CTC may reach
\* zero count on channel 0 or 2 in any tick (zc: the ZCTO pins it asserts)
z80ctc_tick(ctc, p, zc) ==
    LET sel == "CTC_CE" \in p.ctrl /\ "IORQ" \in p.ctrl /\ "WR" \in p.ctrl
        ctc2 == IF sel THEN [ctc EXCEPT !.running = TRUE] ELSE ctc
    IN  [ctc |-> ctc2,
         pins |-> [p EXCEPT !.ctrl = (@ \ {"ZCTO0", "ZCTO2"})
                                     \cup (IF ctc.running THEN zc ELSE {})]]

CtcOutputs == { {}, {"ZCTO2"}, {"ZCTO0"} }

BEEPER_FIXEDPOINT_SCALE == 16

\* beeper_init
BeeperInit(tick_hz, sound_hz) ==
    [state |-> 0, period |-> (tick_hz * BEEPER_FIXEDPOINT_SCALE) \div sound_hz,
     counter |-> (tick_hz * BEEPER_FIXEDPOINT_SCALE) \div sound_hz]

\* beeper_reset
beeper_reset(bp) == [bp EXCEPT !.state = 0, !.counter = bp.period]

beeper_toggle(bp) == [bp EXCEPT !.state = 1 - @]

\* beeper_tick: TRUE in `ready` when a new sample is ready
beeper_tick(bp) ==
    LET c == bp.counter - BEEPER_FIXEDPOINT_SCALE
    IN  IF c <= 0
        THEN [bp |-> [bp EXCEPT !.counter = c + bp.period], ready |-> TRUE]
        ELSE [bp |-> [bp EXCEPT !.counter = c], ready |-> FALSE]

\* kbd_init(&sys->kbd, 3): no key pressed
KBD_STICKY_US == 3 * 16667
KbdInit == [cur_time |-> 0, keys |-> [x \in {} |-> 0], active_columns |-> 0, active_lines |-> 0]

\* key codes the host sends
Keys == {65}

kbd_key_down(kbd, k) ==
    [kbd EXCEPT !.keys = (k :> [pressed_time |-> kbd.cur_time, released |-> FALSE]) @@ @]

kbd_key_up(kbd, k) ==
    [kbd EXCEPT !.keys = [x \in DOMAIN @ |->
                            IF x = k THEN [@[x] EXCEPT !.released = TRUE] ELSE @[x]]]

\* kbd_update: advance the time, drop released keys whose sticky time is over
kbd_update(kbd, us) ==
    LET t == kbd.cur_time + us
        keep == {x \in DOMAIN kbd.keys :
                    ~(kbd.keys[x].released /\ t > kbd.keys[x].pressed_time + KBD_STICKY_US)}
    IN  [kbd EXCEPT !.cur_time = t, !.keys = [x \in keep |-> kbd.keys[x]]]

\* clk_us_to_ticks
clk_us_to_ticks(freq_hz, micro_seconds) == (freq_hz * micro_seconds) \div 1000000

\* key 'A' sits at column 1, line 2 of the keymap string
KeyColumn(k) == 1
KeyLine(k) == 2

\* kbd_scan_columns: the columns of the pressed keys on active lines
kbd_scan_columns(kbd) ==
    IF \E k \in DOMAIN kbd.keys : Bit(kbd.active_lines, KeyLine(k)) = 1
    THEN 2 ^ KeyColumn(65) ELSE 0

\* kbd_scan_lines: the lines of the pressed keys on active columns
kbd_scan_lines(kbd) ==
    IF \E k \in DOMAIN kbd.keys : Bit(kbd.active_columns, KeyColumn(k)) = 1
    THEN 2 ^ KeyLine(65) ELSE 0

----------------------------------------------------------------------------
(* The machine instance *)

EmptyRam == [a \in {} |-> 0]

\* configurations handed to z9001_init: the model type, whether a debug hook
\* and an audio callback are given, whether the Z9001 has the BASIC module
\* the desc fields that matter: the model, a debug hook, the BASIC ROM, an
\* audio callback and the audio.num_samples asked for (0: the default)
Desc(type, debug, basic, audio_cb, num_samples) ==
    [type |-> type, debug |-> debug, basic |-> basic, audio_cb |-> audio_cb,
     num_samples |-> num_samples]

Descs ==
    { Desc(type, debug, basic, TRUE, 0) :
        type \in {TYPE_Z9001, TYPE_KC87}, debug \in BOOLEAN, basic \in BOOLEAN }
    \ { Desc(TYPE_KC87, debug, FALSE, TRUE, 0) : debug \in BOOLEAN }

\* descs of instances with small sample buffers, with and without a callback
AudioDescs ==
    { Desc(TYPE_Z9001, FALSE, FALSE, cb, n) : cb \in BOOLEAN, n \in {0, 1, 2, 3} }

\* _Z9001_DEFAULT(val, def)
_Z9001_DEFAULT(val, def) == IF val # 0 THEN val ELSE def

\* the z9001_t that z9001_init(sys, desc) leaves; rom and rom_font stand for
\* the ROM images copied from desc
z9001_init(desc) ==
    [ cpu |-> z80_prefetch(CpuPowerOn, ENTRY_ADDR),
      pio1 |-> PioPowerOn,
      pio2 |-> PioPowerOn,
      ctc |-> CtcPowerOn,
      beeper |-> BeeperInit(_Z9001_FREQUENCY, 44100),
      blink_flip_flop |-> 0,
      type |-> desc.type,
      pins |-> ZeroPins,
      ctc_zcto2 |-> {},
      blink_counter |-> 0,
      mem |-> [map |-> MemoryMap(desc.type, desc.basic), base |-> "sys"],
      kbd |-> KbdInit,
      valid |-> TRUE,
      z9001_has_basic_rom |-> (desc.type = TYPE_Z9001 /\ desc.basic),
      debug |-> [func |-> desc.debug, stopped |-> desc.debug],
      audio |-> [callback |-> desc.audio_cb,
                 num_samples |-> _Z9001_DEFAULT(desc.num_samples,
                                                Z9001_DEFAULT_AUDIO_SAMPLES),
                 sample_pos |-> 0],
      ram |-> EmptyRam,
      rom |-> 0,
      rom_font |-> 0,
      fb |-> [drawn |-> FALSE] ]

\* _z9001_decode_vidmem: the frame is a function of the 40x24 character cells at
\* 0xEC00, on the KC87 of the colour cells at 0xE800 and of the blink phase,
\* and of the font; fb keeps these inputs of the frame last decoded
InWindow(a, base) == base <= a /\ a < base + 24 * 40

_z9001_decode_vidmem(s) ==
    [ drawn |-> TRUE,
      vidmem |-> [a \in {x \in DOMAIN s.ram : InWindow(x, 60416)} |-> s.ram[a]],
      colmem |-> IF s.type = TYPE_KC87
                 THEN [a \in {x \in DOMAIN s.ram : InWindow(x, 59392)} |-> s.ram[a]]
                 ELSE EmptyRam,
      blink |-> IF s.type = TYPE_KC87 THEN Bit(s.blink_flip_flop, 7) ELSE 0,
      font |-> s.rom_font ]

\* 8-bit and
RECURSIVE And8(_, _, _)
And8(a, b, n) ==
    IF n = 0 THEN 0
    ELSE ((a % 2) * (b % 2)) + 2 * And8(a \div 2, b \div 2, n - 1)

\* In the video decoder a uint32_t is kept as its four bytes, the least
\* significant first: the order a little-endian machine stores them in, so
\* that byte k of the word is dst[k]
AndW(x, y) == << And8(x[1], y[1], 8), And8(x[2], y[2], 8),
                 And8(x[3], y[3], 8), And8(x[4], y[4], 8) >>

XorW(x, y) == << Xor16(x[1], y[1], 8), Xor16(x[2], y[2], 8),
                 Xor16(x[3], y[3], 8), Xor16(x[4], y[4], 8) >>

\* x >> 4: each byte takes the low nibble of the byte above it
ShrW4(x) == << (x[1] \div 16) + (x[2] % 16) * 16, (x[2] \div 16) + (x[3] % 16) * 16,
               (x[3] \div 16) + (x[4] % 16) * 16, x[4] \div 16 >>

\* lut32[16]
Lut32 ==
    << <<0, 0, 0, 0>>,   <<0, 0, 0, 255>>,   <<0, 0, 255, 0>>,   <<0, 0, 255, 255>>,
       <<0, 255, 0, 0>>, <<0, 255, 0, 255>>, <<0, 255, 255, 0>>, <<0, 255, 255, 255>>,
       <<255, 0, 0, 0>>,   <<255, 0, 0, 255>>,   <<255, 0, 255, 0>>,   <<255, 0, 255, 255>>,
       <<255, 255, 0, 0>>, <<255, 255, 0, 255>>, <<255, 255, 255, 0>>, <<255, 255, 255, 255>> >>

\* _z9001_decode_8pixels with the two nibbles of the glyph row exchanged
decode_8pixels_NibblesSwapped(pixels, colors) ==
    LET colors32 == <<colors, colors, colors, colors>>
        bg32 == AndW(colors32, <<7, 7, 7, 7>>)
        fg32 == AndW(ShrW4(colors32), <<7, 7, 7, 7>>)
        xor32 == XorW(bg32, fg32)
    IN  XorW(bg32, AndW(xor32, Lut32[(pixels % 16) + 1]))
        \o XorW(bg32, AndW(xor32, Lut32[(pixels \div 16) + 1]))

\* _z9001_decode_8pixels: the 8 bytes written to dst
_z9001_decode_8pixels(pixels, colors) ==
    LET colors32 == <<colors, colors, colors, colors>>      \* colors * 0x01010101u
        bg32 == AndW(colors32, <<7, 7, 7, 7>>)
        fg32 == AndW(ShrW4(colors32), <<7, 7, 7, 7>>)
        xor32 == XorW(bg32, fg32)
    IN  XorW(bg32, AndW(xor32, Lut32[(pixels \div 16) + 1]))
        \o XorW(bg32, AndW(xor32, Lut32[(pixels % 16) + 1]))

\* byte i of the font ROM image the host hands to z9001_init
FontByte(i) == (i * 37 + 11) % 256

\* the colors of a cell if every cell blinked, whatever bit 7 of its color byte
CellColors_AllBlink(type, colors, blink_flip_flop) ==
    IF type = TYPE_KC87
    THEN IF And8(blink_flip_flop, 128, 8) # 0
         THEN ((colors % 8) * 16) + ((colors \div 16) % 8)
         ELSE colors
    ELSE 112

\* _z9001_decode_vidmem, the colors of a cell: on the KC87 the color byte, fore-
\* and background exchanged while the cell blinks; 0x70 on the Z9001
CellColors(type, colors, blink_flip_flop) ==
    IF type = TYPE_KC87
    THEN IF And8(And8(colors, blink_flip_flop, 8), 128, 8) # 0
         THEN ((colors % 8) * 16) + ((colors \div 16) % 8)
         ELSE colors
    ELSE 112

\* _z9001_decode_vidmem, the loop body: the 8 pixels of row py of a cell
DecodeCellRow(type, chr, py, colors, blink_flip_flop) ==
    _z9001_decode_8pixels(FontByte((chr * 8) + py),
                          CellColors(type, colors, blink_flip_flop))

\* _z9001_tick is a pipeline over t = [sys, pins, log]: the instance, the
\* local pins, and a log of the tick: the order the components were advanced
\* in, the daisy-chain, cascade and chip-enable pins each chip was ticked with
\* and returned,
\* whether an audio sample was appended and whether the callback was invoked
WatchedPins == {"IEIO", "CLKTRG3", "ZCTO2", "PIO_CE", "CTC_CE"}

Watch(p) == p.ctrl \cap WatchedPins

NoTickLog ==
    [ order |-> <<>>,
      pio1_in |-> {}, pio1_out |-> {},
      pio2_in |-> {}, pio2_out |-> {},
      ctc_in |-> {}, ctc_out |-> {},
      sample |-> FALSE, flushed |-> FALSE ]

\* pins = z80_tick(&sys->cpu, pins)
TickCpu(s, cyc) ==
    LET c == z80_tick(s.cpu, cyc)
    IN  [sys |-> [s EXCEPT !.cpu = c.cpu], pins |-> c.pins,
         log |-> [NoTickLog EXCEPT !.order = <<"cpu">>]]

\* handle memory requests
TickMem(t) ==
    LET u == [t EXCEPT !.log.order = Append(@, "mem")]
    IN  IF "MREQ" \in t.pins.ctrl
        THEN IF "RD" \in t.pins.ctrl
             THEN [u EXCEPT !.pins.data = mem_rd(t.sys, t.pins.addr)]
             ELSE IF "WR" \in t.pins.ctrl
                  THEN [u EXCEPT !.sys.ram = mem_wr(t.sys.mem, @, t.pins.addr, t.pins.data)]
                  ELSE u
        ELSE u

\* the pins PIO-1 is ticked with
Pio1Pins(p) ==
    Set(p, {"IEIO"}
           \cup (IF IoSelected(p, PIO1_SEL) THEN {"PIO_CE"} ELSE {})
           \cup (IF AddrBit(p, 0) THEN {"PIO_BASEL"} ELSE {})
           \cup (IF AddrBit(p, 1) THEN {"PIO_CDSEL"} ELSE {}))

\* tick PIO-1 and leave its chip pins on the bus for the next chip
TickPio1_NoMask(t, blk) ==
    LET inp == Pio1Pins(t.pins)
        r == z80pio_tick(t.sys.pio1, inp, "pio1" \in blk)
    IN  [t EXCEPT !.sys.pio1 = r.pio,
                  !.pins = r.pins,
                  !.log.order = Append(@, "pio1"),
                  !.log.pio1_in = Watch(inp),
                  !.log.pio1_out = Watch(r.pins)]

\* tick PIO-1 (highest priority daisychain device)
TickPio1(t, blk) ==
    LET inp == Pio1Pins(t.pins)
        r == z80pio_tick(t.sys.pio1, inp, "pio1" \in blk)
    IN  [t EXCEPT !.sys.pio1 = r.pio,
                  !.pins = MaskZ80(r.pins),
                  !.log.order = Append(@, "pio1"),
                  !.log.pio1_in = Watch(inp),
                  !.log.pio1_out = Watch(r.pins)]

\* the pins PIO-2 is ticked with, IEIO asserted as it is for PIO-1
Pio2Pins_SetsIeio(p, kbd) ==
    [ Set(p, {"IEIO"}
             \cup (IF IoSelected(p, PIO2_SEL) THEN {"PIO_CE"} ELSE {})
             \cup (IF AddrBit(p, 0) THEN {"PIO_BASEL"} ELSE {})
             \cup (IF AddrBit(p, 1) THEN {"PIO_CDSEL"} ELSE {}))
      EXCEPT !.pa = 255 - kbd_scan_columns(kbd), !.pb = 255 - kbd_scan_lines(kbd) ]

\* the pins PIO-2 is ticked with: chip select and the keyboard matrix on PA/PB
Pio2Pins(p, kbd) ==
    [ Set(p, (IF IoSelected(p, PIO2_SEL) THEN {"PIO_CE"} ELSE {})
             \cup (IF AddrBit(p, 0) THEN {"PIO_BASEL"} ELSE {})
             \cup (IF AddrBit(p, 1) THEN {"PIO_CDSEL"} ELSE {}))
      EXCEPT !.pa = 255 - kbd_scan_columns(kbd), !.pb = 255 - kbd_scan_lines(kbd) ]

\* tick PIO-2
TickPio2(t, blk) ==
    LET inp == Pio2Pins(t.pins, t.sys.kbd)
        r == z80pio_tick(t.sys.pio2, inp, "pio2" \in blk)
    IN  [t EXCEPT !.sys.pio2 = r.pio,
                  !.sys.kbd.active_columns = 255 - r.pins.pa,
                  !.sys.kbd.active_lines = 255 - r.pins.pb,
                  !.pins = MaskZ80(r.pins),
                  !.log.order = Append(@, "pio2"),
                  !.log.pio2_in = Watch(inp),
                  !.log.pio2_out = Watch(r.pins)]

\* the pins the CTC is ticked with: the saved ZCTO2, chip select, CLKTRG3
CtcPins(p, ctc_zcto2) ==
    LET q == Set(p, ctc_zcto2)
    IN  Set(q, (IF IoSelected(q, CTC_SEL) THEN {"CTC_CE"} ELSE {})
               \cup (IF AddrBit(q, 0) THEN {"CTC_CS0"} ELSE {})
               \cup (IF AddrBit(q, 1) THEN {"CTC_CS1"} ELSE {})
               \cup (IF "ZCTO2" \in q.ctrl THEN {"CLKTRG3"} ELSE {}))

\* tick the CTC without saving its ZCTO2 output for the next tick
TickCtc_KeepsLatch(t, zc) ==
    LET inp == CtcPins(t.pins, t.sys.ctc_zcto2)
        r == z80ctc_tick(t.sys.ctc, inp, zc)
    IN  [t EXCEPT !.sys.ctc = r.ctc,
                  !.sys.beeper = IF "ZCTO0" \in r.pins.ctrl
                                 THEN beeper_toggle(@) ELSE @,
                  !.pins = MaskZ80(r.pins),
                  !.log.order = Append(@, "ctc"),
                  !.log.ctc_in = Watch(inp),
                  !.log.ctc_out = Watch(r.pins)]

\* tick the CTC
TickCtc(t, zc) ==
    LET inp == CtcPins(t.pins, t.sys.ctc_zcto2)
        r == z80ctc_tick(t.sys.ctc, inp, zc)
    IN  [t EXCEPT !.sys.ctc = r.ctc,
                  !.sys.beeper = IF "ZCTO0" \in r.pins.ctrl
                                 THEN beeper_toggle(@) ELSE @,
                  !.sys.ctc_zcto2 = r.pins.ctrl \cap {"ZCTO2"},
                  !.pins = MaskZ80(r.pins),
                  !.log.order = Append(@, "ctc"),
                  !.log.ctc_in = Watch(inp),
                  !.log.ctc_out = Watch(r.pins)]

\* tick the beeper, the buffer counting as full one sample late
TickBeeper_OneLate(t) ==
    LET b == beeper_tick(t.sys.beeper)
        full == b.ready /\ t.sys.audio.sample_pos + 1 > t.sys.audio.num_samples
    IN  [t EXCEPT !.sys.beeper = b.bp,
                  !.sys.audio.sample_pos =
                      IF b.ready THEN (IF full THEN 0 ELSE @ + 1) ELSE @,
                  !.log.order = Append(@, "beeper"),
                  !.log.sample = b.ready,
                  !.log.flushed = full /\ t.sys.audio.callback]

\* tick the beeper: a new sample advances the write cursor; a full buffer is
\* handed to the audio callback, if there is one, and the cursor starts over
TickBeeper(t) ==
    LET b == beeper_tick(t.sys.beeper)
        full == b.ready /\ t.sys.audio.sample_pos + 1 = t.sys.audio.num_samples
    IN  [t EXCEPT !.sys.beeper = b.bp,
                  !.sys.audio.sample_pos =
                      IF b.ready THEN (IF full THEN 0 ELSE @ + 1) ELSE @,
                  !.log.order = Append(@, "beeper"),
                  !.log.sample = b.ready,
                  !.log.flushed = full /\ t.sys.audio.callback]

\* the blink flip flop with the period clock/25/8
TickBlink_ShortPeriod(t) ==
    LET u == [t EXCEPT !.log.order = Append(@, "blink")]
    IN  IF 0 >= t.sys.blink_counter
        THEN [u EXCEPT !.sys.blink_counter = (_Z9001_FREQUENCY \div 25) \div 8,
                       !.sys.blink_flip_flop = (@ + 128) % 256]
        ELSE [u EXCEPT !.sys.blink_counter = @ - 1]

\* the blink flip flop: if (0 >= sys->blink_counter--) reload and flip bit 7
TickBlink(t) ==
    LET u == [t EXCEPT !.log.order = Append(@, "blink")]
    IN  IF 0 >= t.sys.blink_counter
        THEN [u EXCEPT !.sys.blink_counter = (_Z9001_FREQUENCY * 8) \div 25,
                       !.sys.blink_flip_flop = (@ + 128) % 256]
        ELSE [u EXCEPT !.sys.blink_counter = @ - 1]

\* _z9001_tick: one clock cycle.  cyc is the bus cycle the CPU runs unless an
\* opcode fetch is due, blk the PIOs that hold the interrupt daisy chain, zc
\* the zero-count pins a running CTC asserts
_z9001_tick(s, cyc, blk, zc) ==
    TickBlink(TickBeeper(TickCtc(TickPio2(TickPio1(TickMem(TickCpu(s, cyc)), blk), blk), zc)))

----------------------------------------------------------------------------
(* Quick-load *)

\* _z9001_load_start: clear the registers, continue at exec_addr
_z9001_load_start(s, exec_addr) ==
    [s EXCEPT !.cpu = z80_prefetch([@ EXCEPT !.a = 0, !.f = 16,
                                             !.bc = 0, !.bc2 = 0,
                                             !.de = 0, !.de2 = 0,
                                             !.hl = 0, !.hl2 = 0,
                                             !.af2 = 0], exec_addr),
              !.pins = ZeroPins]

\* while (addr < end_addr) mem_wr(&sys->mem, addr++, *ptr++);
\* the addresses addr..end_addr-1 take the bytes at ptr, ptr+1, ...
KccCopy(mem, ram, d, addr, end_addr, ptr, oob) ==
    [a \in {x \in addr..(end_addr - 1) : Writable(mem, x)} |->
        ByteAt(d, ptr + (a - addr), oob)] @@ ram

\* _z9001_load_kcc: the instance afterwards and the value returned
_z9001_load_kcc(s, d, oob) ==
    LET addr == Addr16(d[17 + 1], d[18 + 1])
        end_addr == Addr16(d[19 + 1], d[20 + 1])
    IN  [ sys |-> [s EXCEPT !.ram = KccCopy(s.mem, s.ram, d, addr, end_addr,
                                            KCC_HEADER_SIZE, oob)],
          ok |-> FALSE ]

\* for (int i = 0; i < 128; i++) mem_wr(&sys->mem, addr++, *ptr++);
\* the uint16_t addr wraps around; address (addr + i) % 2^16 takes byte ptr + i
KctapCopy(mem, ram, d, addr, ptr, oob) ==
    [a \in {x \in {(addr + i) % ADDR_SPACE : i \in 0..(KCTAP_BLOCK - 1)} : Writable(mem, x)} |->
        ByteAt(d, ptr + ((a - addr) % ADDR_SPACE), oob)] @@ ram

\* _z9001_load_kctap, the locals at entry of the copy loop
KctapEnter(d) ==
    [ addr |-> Addr16(d[17 + 17 + 1], d[17 + 18 + 1]),
      end_addr |-> Addr16(d[17 + 19 + 1], d[17 + 20 + 1]),
      ptr |-> KCTAP_HEADER_SIZE ]

\* _z9001_load_kctap, one pass of the while loop: skip the lead byte, copy
\* 128 bytes
KctapBlockRam(mem, ram, d, fr, oob) ==
    KctapCopy(mem, ram, d, fr.addr, fr.ptr + 1, oob)

KctapBlockFrame(fr) ==
    [fr EXCEPT !.addr = (@ + KCTAP_BLOCK) % ADDR_SPACE, !.ptr = @ + 1 + KCTAP_BLOCK]

\* the offsets into the data that *ptr++ reads in the copy loop of
\* _z9001_load_kcc
KccReads(d) ==
    { KCC_HEADER_SIZE + i :
        i \in 0..((Addr16(d[19 + 1], d[20 + 1]) - Addr16(d[17 + 1], d[18 + 1])) - 1) }

\* the offsets into the data that *ptr++ reads in one pass of the loop of
\* _z9001_load_kctap: the lead byte is skipped, 128 bytes are read
KctapReads(fr) == { fr.ptr + 1 + i : i \in 0..(KCTAP_BLOCK - 1) }

\* _z9001_load_kctap starting the program from two addresses on
KctapFinish_TwoAddr(s, d) ==
    IF d[17 + 16 + 1] > 1
    THEN _z9001_load_start(s, Addr16(d[17 + 21 + 1], d[17 + 22 + 1]))
    ELSE s

\* _z9001_load_kctap after the loop: if file has an exec-address, start the program
KctapFinish(s, d) ==
    IF d[17 + 16 + 1] > 2
    THEN _z9001_load_start(s, Addr16(d[17 + 21 + 1], d[17 + 22 + 1]))
    ELSE s

\* z9001_quickload, the format decision: the loader that runs
QuickloadFormat(d) ==
    IF _z9001_is_valid_kctap(d) THEN "kctap"
    ELSE IF _z9001_is_valid_kcc(d) THEN "kcc"
    ELSE "none"

----------------------------------------------------------------------------
(* Inputs *)

Image(sig, name, num_addr, load, end, exec, size) ==
    [sig |-> sig, name |-> name, num_addr |-> num_addr, load |-> load, end |-> end,
     exec |-> exec, size |-> size]

\* <<load_addr, end_addr>> of the well-formed images
Ranges == { <<512, 528>>,       \* 0x0200..0x0210
            <<768, 784>>,       \* 0x0300..0x0310
            <<512, 640>>,       \* 0x0200..0x0280, one full block
            <<32760, 32776>> }  \* 0x7FF8..0x8008, across the end of the Z9001 RAM

\* data.size of the well-formed images: a KCC header and 16 bytes, a KC TAP
\* header and 16 bytes, a KC TAP header and one block with its lead byte
Sizes == {144, 161, 274}

\* images with or without the KC TAP signature, without and with an execute
\* address (load + 5), of every range and size
PlainImages ==
    { Image(sig, "ascii", n, r[1], r[2], r[1] + 5, sz) :
        sig \in BOOLEAN, n \in {2, 3}, r \in Ranges, sz \in Sizes }

\* images with one field out of the ordinary: a name byte >= 128, a name that
\* reads as addresses, four addresses, an end below the load address, an execute
\* address past the end, no more bytes than a header (none, the name only, a
\* whole header)
OddImages ==
    { Image(sig, nm, 3, 512, 528, 517, 274) : sig \in BOOLEAN, nm \in {"high", "low"} }
    \cup { Image(sig, "ascii", 4, 512, 528, 517, 274) : sig \in BOOLEAN }
    \cup { Image(sig, "ascii", 3, 528, 512, 517, 274) : sig \in BOOLEAN }
    \cup { Image(sig, "ascii", 3, 512, 528, 529, 274) : sig \in BOOLEAN }
    \cup { Image(sig, "ascii", 3, 512, 528, 517, sz) :
             sig \in BOOLEAN, sz \in {0, 16, KCC_HEADER_SIZE, KCTAP_HEADER_SIZE} }

Images == PlainImages \cup OddImages

\* the images the general specification hands to z9001_quickload
SomeImages ==
    { Image(FALSE, "ascii", 3, 768, 784, 773, 144),
      Image(TRUE, "ascii", 3, 512, 528, 517, 274),
      Image(TRUE, "ascii", 2, 512, 528, 517, 161),
      Image(FALSE, "ascii", 3, 512, 528, 517, KCC_HEADER_SIZE) }

\* bytes an out-of-bounds read of the data may yield
OobBytes == {0, 229}

NoImage == [sig |-> FALSE, name |-> "ascii", num_addr |-> 0, load |-> 0, end |-> 0,
            exec |-> 0, size |-> 0]

\* images at the top of the address space, 0xFF00..0xFFFF, as KC TAP with its
\* two blocks complete and as KCC, and a KC TAP image of one block at 0x0200
TopImages ==
    { Image(TRUE, "ascii", 2, 65280, 65535, 65285, 403),
      Image(FALSE, "ascii", 2, 65280, 65535, 65285, 383),
      Image(TRUE, "ascii", 2, 512, 528, 517, 274) }

----------------------------------------------------------------------------
(* State machine *)

NoFrame == [op |-> "none"]
NoSnap == [have |-> FALSE]
\* what is remembered of the last call: its name, its argument, the call before
\* it, the ticks it executed, the loaders it ran, whether a loaded snapshot was
\* taken from the unchanged instance, the debug hook's invocations and the pins
\* of the last one; and of the instance since its construction: the log of
\* the last tick (none: no tick yet), the audio samples appended and the
\* audio callback's invocations
NoCall == [fn |-> "none", arg |-> 0, prev |-> "none", ticks |-> 0, ran |-> {},
           fmt |-> "none", immediate |-> FALSE,
           hooks |-> 0, hook_pins |-> ZeroPins,
           last |-> NoTickLog, samples |-> 0, flushes |-> 0]

Call(fn, arg) ==
    [NoCall EXCEPT !.fn = fn, !.arg = arg, !.prev = hist.fn,
                   !.last = hist.last,
                   !.samples = hist.samples, !.flushes = hist.flushes]

InitWith(descs) ==
    /\ \E desc \in descs : sys = z9001_init(desc)
    /\ stopped = FALSE
    /\ snap = NoSnap
    /\ pc = "idle"
    /\ frame = NoFrame
    /\ ret = [fn |-> "none", ok |-> FALSE, val |-> 0]
    /\ pre = sys
    /\ img = NoImage
    /\ hist = NoCall
    /\ ncalls = 0
    /\ nloads = 0

Init == InitWith(Descs)

\* a public call may start: the thread is idle and the bound is not reached
CanCall == pc = "idle" /\ ncalls < MaxCalls

\* a call that changes the instance makes an earlier snapshot stale
Stale(sn) == IF sn.have THEN [sn EXCEPT !.fresh = FALSE] ELSE sn

\* the durations a caller hands to z9001_exec: none, and one of two ticks
ExecUs == {0, 1}

\* z9001_exec, entry: the tick count and the local pins
ExecCall(micro_seconds) ==
    /\ CanCall /\ sys.valid
    /\ pc' = "exec"
    /\ frame' = [op |-> "exec", micro_seconds |-> micro_seconds,
                 num_ticks |-> clk_us_to_ticks(_Z9001_FREQUENCY, micro_seconds),
                 tick |-> 0, pins |-> sys.pins]
    /\ pre' = sys
    /\ hist' = Call("exec", micro_seconds)
    /\ snap' = Stale(snap)
    /\ ncalls' = ncalls + 1
    /\ UNCHANGED <<sys, stopped, ret, img, nloads>>

\* the condition of the tick loop without the test of the stopped flag
ExecLoopCond_IgnoresStop == frame.tick < frame.num_ticks

\* the condition of the tick loop, with and without debug hook
ExecLoopCond ==
    IF sys.debug.func
    THEN (frame.tick < frame.num_ticks) /\ ~stopped
    ELSE frame.tick < frame.num_ticks

\* z9001_exec, one pass of the tick loop; with a debug hook the callback runs
\* after the tick and may set the stopped flag.  cycles are the bus cycles the
\* running program may issue
ExecTickOn(cycles) ==
    /\ pc = "exec" /\ ExecLoopCond
    /\ \E cyc \in cycles, blk \in SUBSET {"pio1", "pio2"}, zc \in CtcOutputs,
          stop \in BOOLEAN :
        LET t == _z9001_tick(sys, cyc, blk, zc)
        IN  /\ (sys.cpu.step = "fetch") => cyc.kind = "none"
            /\ ("pio1" \in blk) => sys.pio1.programmed
            /\ ("pio2" \in blk) => sys.pio2.programmed
            /\ ~sys.ctc.running => zc = {}
            /\ ~sys.debug.func => ~stop
            /\ sys' = t.sys
            /\ frame' = [frame EXCEPT !.pins = t.pins, !.tick = @ + 1]
            /\ stopped' = (stopped \/ stop)
            /\ hist' = [hist EXCEPT
                   !.ticks = @ + 1,
                   !.last = t.log,
                   !.samples = IF t.log.sample THEN @ + 1 ELSE @,
                   !.flushes = IF t.log.flushed THEN @ + 1 ELSE @,
                   !.hooks = IF sys.debug.func THEN @ + 1 ELSE @,
                   !.hook_pins = IF sys.debug.func THEN t.pins ELSE @]
    /\ UNCHANGED <<snap, pc, ret, pre, img, ncalls, nloads>>

ExecTick == ExecTickOn(CpuCycles)

\* the value z9001_exec returns
ExecResult(fr) == fr.num_ticks

\* z9001_exec returning at once when the debug hook stopped the loop early
ExecReturn_EarlyOut ==
    /\ pc = "exec" /\ ~ExecLoopCond
    /\ LET s1 == [sys EXCEPT !.pins = frame.pins,
                             !.kbd = kbd_update(@, frame.micro_seconds)]
       IN  sys' = IF frame.tick < frame.num_ticks
                  THEN [sys EXCEPT !.pins = frame.pins]
                  ELSE [s1 EXCEPT !.fb = _z9001_decode_vidmem(s1)]
    /\ ret' = [fn |-> "exec", ok |-> TRUE, val |-> ExecResult(frame)]
    /\ pc' = "idle"
    /\ frame' = NoFrame
    /\ UNCHANGED <<stopped, snap, pre, img, hist, ncalls, nloads>>

\* z9001_exec after the loop: store the pins, update the keyboard, decode the
\* video memory, return
ExecReturn ==
    /\ pc = "exec" /\ ~ExecLoopCond
    /\ LET s1 == [sys EXCEPT !.pins = frame.pins,
                             !.kbd = kbd_update(@, frame.micro_seconds)]
       IN  sys' = [s1 EXCEPT !.fb = _z9001_decode_vidmem(s1)]
    /\ ret' = [fn |-> "exec", ok |-> TRUE, val |-> ExecResult(frame)]
    /\ pc' = "idle"
    /\ frame' = NoFrame
    /\ UNCHANGED <<stopped, snap, pre, img, hist, ncalls, nloads>>

\* the debugger lets a stopped machine continue
DebugContinue ==
    /\ pc = "idle" /\ sys.debug.func /\ stopped
    /\ stopped' = FALSE
    /\ UNCHANGED <<sys, snap, pc, frame, ret, pre, img, hist, ncalls, nloads>>

\* z9001_reset leaving the program counter where z80_reset puts it
z9001_reset_NoPrefetch(s) ==
    [s EXCEPT !.cpu = CpuPowerOn,
              !.pio1 = PioPowerOn,
              !.pio2 = PioPowerOn,
              !.ctc = CtcPowerOn,
              !.beeper = beeper_reset(@),
              !.pins = ZeroPins]

\* z9001_reset running the RAM fill of z9001_init again
z9001_reset_Refill(s) ==
    [s EXCEPT !.cpu = z80_prefetch(CpuPowerOn, ENTRY_ADDR),
              !.pio1 = PioPowerOn,
              !.pio2 = PioPowerOn,
              !.ctc = CtcPowerOn,
              !.beeper = beeper_reset(@),
              !.pins = ZeroPins,
              !.ram = EmptyRam]

\* z9001_reset
z9001_reset(s) ==
    [s EXCEPT !.cpu = z80_prefetch(CpuPowerOn, ENTRY_ADDR),
              !.pio1 = PioPowerOn,
              !.pio2 = PioPowerOn,
              !.ctc = CtcPowerOn,
              !.beeper = beeper_reset(@),
              !.pins = ZeroPins]

Reset ==
    /\ CanCall /\ sys.valid
    /\ sys' = z9001_reset(sys)
    /\ ret' = [fn |-> "reset", ok |-> TRUE, val |-> 0]
    /\ pre' = sys
    /\ hist' = Call("reset", 0)
    /\ snap' = Stale(snap)
    /\ ncalls' = ncalls + 1
    /\ UNCHANGED <<stopped, pc, frame, img, nloads>>

\* z9001_key_down
KeyDown(k) ==
    /\ CanCall /\ sys.valid
    /\ sys' = [sys EXCEPT !.kbd = kbd_key_down(@, k)]
    /\ ret' = [fn |-> "key_down", ok |-> TRUE, val |-> 0]
    /\ pre' = sys
    /\ hist' = Call("key_down", k)
    /\ snap' = Stale(snap)
    /\ ncalls' = ncalls + 1
    /\ UNCHANGED <<stopped, pc, frame, img, nloads>>

\* z9001_key_up
KeyUp(k) ==
    /\ CanCall /\ sys.valid
    /\ k \in DOMAIN sys.kbd.keys
    /\ sys' = [sys EXCEPT !.kbd = kbd_key_up(@, k)]
    /\ ret' = [fn |-> "key_up", ok |-> TRUE, val |-> 0]
    /\ pre' = sys
    /\ hist' = Call("key_up", k)
    /\ snap' = Stale(snap)
    /\ ncalls' = ncalls + 1
    /\ UNCHANGED <<stopped, pc, frame, img, nloads>>

\* z9001_discard
Discard ==
    /\ CanCall /\ sys.valid
    /\ sys' = [sys EXCEPT !.valid = FALSE]
    /\ ret' = [fn |-> "discard", ok |-> TRUE, val |-> 0]
    /\ pre' = sys
    /\ hist' = Call("discard", 0)
    /\ snap' = Stale(snap)
    /\ ncalls' = ncalls + 1
    /\ UNCHANGED <<stopped, pc, frame, img, nloads>>

\* z9001_quickload, entry: the format checks; a KCC image is loaded at once,
\* a KC TAP image enters the block loop of _z9001_load_kctap
QuickloadCall(im) ==
    /\ CanCall /\ sys.valid /\ nloads < MaxLoads
    /\ nloads' = nloads + 1
    /\ LET d == ImageBytes(im)
           fmt == QuickloadFormat(d)
       IN  /\ hist' = [Call("quickload", 0) EXCEPT !.fmt = fmt,
                          !.ran = IF fmt = "none" THEN {} ELSE {fmt}]
           /\ CASE fmt = "kctap" ->
                    /\ pc' = "kctap"
                    /\ frame' = [op |-> "kctap"] @@ KctapEnter(d)
                    /\ UNCHANGED <<sys, ret>>
                [] fmt = "kcc" ->
                    \E oob \in OobBytes :
                        LET r == _z9001_load_kcc(sys, d, oob)
                        IN  /\ (Addr16(d[19 + 1], d[20 + 1]) - Addr16(d[17 + 1], d[18 + 1]))
                                 + KCC_HEADER_SIZE <= Len(d) => oob = 0
                            /\ sys' = r.sys
                            /\ ret' = [fn |-> "quickload", ok |-> r.ok, val |-> 0]
                            /\ UNCHANGED <<pc, frame>>
                [] OTHER ->
                    /\ ret' = [fn |-> "quickload", ok |-> FALSE, val |-> 0]
                    /\ UNCHANGED <<sys, pc, frame>>
    /\ pre' = sys
    /\ img' = im
    /\ snap' = Stale(snap)
    /\ ncalls' = ncalls + 1
    /\ UNCHANGED stopped

\* _z9001_load_kctap, one pass of the while loop; oobs are the bytes a read
\* past the data may yield.  A ptr past the end of the data is kept at
\* data.size: every later read through it is past the end as well
KctapBlockOn(oobs) ==
    /\ pc = "kctap" /\ frame.addr < frame.end_addr
    /\ LET d == ImageBytes(img)
       IN  /\ \E oob \in oobs :
                /\ frame.ptr + 1 + KCTAP_BLOCK <= Len(d) => oob = 0
                /\ sys' = [sys EXCEPT !.ram = KctapBlockRam(sys.mem, @, d, frame, oob)]
           /\ frame' = [KctapBlockFrame(frame) EXCEPT
                           !.ptr = IF @ > Len(d) THEN Len(d) ELSE @]
    /\ UNCHANGED <<stopped, snap, pc, ret, pre, img, hist, ncalls, nloads>>

KctapBlock == KctapBlockOn(OobBytes)

\* _z9001_load_kctap after the loop, and the return of z9001_quickload
KctapReturn ==
    /\ pc = "kctap" /\ ~(frame.addr < frame.end_addr)
    /\ sys' = KctapFinish(sys, ImageBytes(img))
    /\ ret' = [fn |-> "quickload", ok |-> TRUE, val |-> 0]
    /\ pc' = "idle"
    /\ frame' = NoFrame
    /\ UNCHANGED <<stopped, snap, pre, img, hist, ncalls, nloads>>

\* chips_debug_snapshot_onsave, chips_audio_callback_snapshot_onsave,
\* mem_snapshot_onsave: callbacks are cleared, pointers become offsets
SnapshotOnSave(s) ==
    [s EXCEPT !.debug = [func |-> FALSE, stopped |-> FALSE],
              !.audio.callback = FALSE,
              !.mem.base = "offset"]

\* chips_debug_snapshot_onload, chips_audio_callback_snapshot_onload,
\* mem_snapshot_onload: callbacks are taken from the live instance, offsets
\* become pointers into it
SnapshotOnLoad(im, s) ==
    [im EXCEPT !.debug = s.debug,
               !.audio.callback = s.audio.callback,
               !.mem.base = "sys"]

\* z9001_save_snapshot copying all but the blink state
z9001_save_snapshot_NoBlink(s) ==
    [dst |-> SnapshotOnSave([s EXCEPT !.blink_counter = 0, !.blink_flip_flop = 0]),
     version |-> Z9001_SNAPSHOT_VERSION]

\* z9001_save_snapshot: *dst and the version returned
z9001_save_snapshot(s) ==
    [dst |-> SnapshotOnSave(s), version |-> Z9001_SNAPSHOT_VERSION]

\* z9001_load_snapshot without the version check
z9001_load_snapshot_AnyVersion(s, version, src) ==
    [sys |-> SnapshotOnLoad(src, s), ok |-> TRUE]

\* z9001_load_snapshot: the instance afterwards and the value returned
z9001_load_snapshot(s, version, src) ==
    IF version # Z9001_SNAPSHOT_VERSION
    THEN [sys |-> s, ok |-> FALSE]
    ELSE [sys |-> SnapshotOnLoad(src, s), ok |-> TRUE]

SaveSnapshot ==
    /\ CanCall
    /\ LET r == z9001_save_snapshot(sys)
       IN  /\ snap' = [have |-> TRUE, dst |-> r.dst, version |-> r.version, fresh |-> TRUE]
           /\ ret' = [fn |-> "save_snapshot", ok |-> TRUE, val |-> r.version]
    /\ pre' = sys
    /\ hist' = Call("save_snapshot", 0)
    /\ ncalls' = ncalls + 1
    /\ UNCHANGED <<sys, stopped, pc, frame, img, nloads>>

\* versions a caller hands to z9001_load_snapshot
Versions == {Z9001_SNAPSHOT_VERSION, Z9001_SNAPSHOT_VERSION + 1}

\* snapshots a caller holds besides the one saved from this instance: the
\* snapshot saved from a KC87 instance right after its construction
OtherSnapshots ==
    { z9001_save_snapshot(z9001_init(Desc(TYPE_KC87, FALSE, TRUE, TRUE, 0))).dst }

\* the snapshots a caller can hand to z9001_load_snapshot
HeldSnapshots == (IF snap.have THEN {snap.dst} ELSE {}) \cup OtherSnapshots

LoadSnapshot(version, src) ==
    /\ CanCall
    /\ LET r == z9001_load_snapshot(sys, version, src)
       IN  /\ sys' = r.sys
           /\ ret' = [fn |-> "load_snapshot", ok |-> r.ok, val |-> version]
    /\ pre' = sys
    /\ hist' = [Call("load_snapshot", version) EXCEPT
                   !.immediate = (snap.have /\ snap.fresh /\ src = snap.dst)]
    /\ snap' = Stale(snap)
    /\ ncalls' = ncalls + 1
    /\ UNCHANGED <<stopped, pc, frame, img, nloads>>

Next ==
    \/ \E us \in ExecUs : ExecCall(us)
    \/ ExecTick
    \/ ExecReturn
    \/ DebugContinue
    \/ Reset
    \/ \E k \in Keys : KeyDown(k)
    \/ \E k \in Keys : KeyUp(k)
    \/ Discard
    \/ \E im \in SomeImages : QuickloadCall(im)
    \/ KctapBlock
    \/ KctapReturn
    \/ SaveSnapshot
    \/ \E v \in Versions, src \in HeldSnapshots : LoadSnapshot(v, src)

Spec == Init /\ [][Next]_vars

\* bus cycles of a program that writes to the ports of the CTC and the two PIOs
TickCycles ==
    { c \in CpuCycles : c.kind # "mwr" }
    \cup { [kind |-> "iowr", addr |-> 136, data |-> 15],    \* PIO1 port 0x88
           [kind |-> "iowr", addr |-> 144, data |-> 15] }   \* PIO2 port 0x90

\* running and resetting the machine while its program uses all three chips
NextTick ==
    \/ \E us \in ExecUs : ExecCall(us)
    \/ ExecTickOn(TickCycles)
    \/ ExecReturn
    \/ DebugContinue
    \/ Reset

SpecTick == Init /\ [][NextTick]_vars

\* a duration long enough for audio samples: 122 ticks, two samples
AudioUs == {50}

\* bus cycles of a program that leaves the chips alone
IdleCycles == { c \in CpuCycles : c.kind = "none" }

\* running machines with small sample buffers
NextAudio ==
    \/ \E us \in AudioUs : ExecCall(us)
    \/ ExecTickOn(IdleCycles)
    \/ ExecReturn

SpecAudio == InitWith(AudioDescs) /\ [][NextAudio]_vars

\* bus cycles of a program that reads and writes at the borders of the ROM and
\* RAM ranges above 0xE000
MemAddrs == {57344, 59391, 59392, 60415, 60416, 61439, 61440, 65535}

MemCycles ==
    { [kind |-> "mwr", addr |-> a, data |-> 65] : a \in MemAddrs }
    \cup { [kind |-> "mrd", addr |-> a, data |-> 0] : a \in MemAddrs }
    \cup IdleCycles

\* running a KC87 whose program accesses the memory above 0xE000
NextMem ==
    \/ \E us \in ExecUs : ExecCall(us)
    \/ ExecTickOn(MemCycles)
    \/ ExecReturn

SpecMem == InitWith({Desc(TYPE_KC87, FALSE, TRUE, TRUE, 0)}) /\ [][NextMem]_vars

\* port addresses at the borders of the three chips' ranges, with A6 set, and
\* with a high address byte
IoPorts == {127, 128, 135, 136, 143, 144, 151, 152, 200, 392}

\* bus cycles of a program that reads and writes ports, of interrupt
\* acknowledges, and a memory read at a port's address
IoCycles ==
    { [kind |-> k, addr |-> a, data |-> 15] : k \in {"iowr", "iord", "intack"}, a \in IoPorts }
    \cup { [kind |-> "mrd", addr |-> 136, data |-> 0] }
    \cup IdleCycles

\* a duration of 4 ticks: two opcode fetches and two bus cycles
IoUs == {2}

\* one z9001_exec on a fresh machine whose program addresses the peripherals
NextIo ==
    \/ \E us \in IoUs : ncalls = 0 /\ ExecCall(us)
    \/ ExecTickOn(IoCycles)
    \/ ExecReturn

SpecIo == InitWith({Desc(TYPE_Z9001, FALSE, FALSE, TRUE, 0)}) /\ [][NextIo]_vars

\* the glyph rows, color bytes, characters and blink phases the decoder is
\* run on
DecodeColors == {0, 7, 53, 112, 156, 242}

DecodeInputs ==
    { [op |-> "pixels", pixels |-> p, colors |-> c] : p \in 0..255, c \in DecodeColors }
    \cup { [op |-> "cell", chr |-> ch, colors |-> c, blink |-> b] :
             ch \in {32, 65}, c \in DecodeColors, b \in {0, 128} }

InitDecode ==
    /\ \E type \in {TYPE_Z9001, TYPE_KC87} :
           sys = z9001_init(Desc(type, FALSE, TRUE, TRUE, 0))
    /\ stopped = FALSE
    /\ snap = NoSnap
    /\ pc = "decode"
    /\ frame \in DecodeInputs
    /\ ret = [fn |-> "none", ok |-> FALSE, val |-> 0]
    /\ pre = sys
    /\ img = NoImage
    /\ hist = NoCall
    /\ ncalls = 0
    /\ nloads = 0

\* _z9001_decode_8pixels(dst, pixels, colors)
DecodePixels ==
    /\ pc = "decode" /\ frame.op = "pixels"
    /\ frame' = [op |-> "pixels", pixels |-> frame.pixels, colors |-> frame.colors,
                 dst |-> _z9001_decode_8pixels(frame.pixels, frame.colors)]
    /\ pc' = "decoded"
    /\ UNCHANGED <<sys, stopped, snap, ret, pre, img, hist, ncalls, nloads>>

\* _z9001_decode_vidmem, the eight rows of one cell
DecodeCell ==
    /\ pc = "decode" /\ frame.op = "cell"
    /\ frame' = [op |-> "cell", chr |-> frame.chr, colors |-> frame.colors,
                 blink |-> frame.blink,
                 rows |-> << DecodeCellRow(sys.type, frame.chr, 0, frame.colors, frame.blink),
                             DecodeCellRow(sys.type, frame.chr, 1, frame.colors, frame.blink),
                             DecodeCellRow(sys.type, frame.chr, 2, frame.colors, frame.blink),
                             DecodeCellRow(sys.type, frame.chr, 3, frame.colors, frame.blink),
                             DecodeCellRow(sys.type, frame.chr, 4, frame.colors, frame.blink),
                             DecodeCellRow(sys.type, frame.chr, 5, frame.colors, frame.blink),
                             DecodeCellRow(sys.type, frame.chr, 6, frame.colors, frame.blink),
                             DecodeCellRow(sys.type, frame.chr, 7, frame.colors, frame.blink) >>]
    /\ pc' = "decoded"
    /\ UNCHANGED <<sys, stopped, snap, ret, pre, img, hist, ncalls, nloads>>

NextDecode == DecodePixels \/ DecodeCell

SpecDecode == InitDecode /\ [][NextDecode]_vars

\* quick-loading every image into a fresh instance
NextLoad ==
    \/ \E im \in Images : QuickloadCall(im)
    \/ KctapBlock
    \/ KctapReturn

SpecLoad == Init /\ [][NextLoad]_vars

\* quick-loading images at the top of the address space; a loader that has
\* been entered keeps running: its loop makes its next pass or returns
NextTop ==
    \/ \E im \in TopImages : QuickloadCall(im)
    \/ KctapBlockOn({0})
    \/ KctapReturn

SpecTop ==
    /\ InitWith({Desc(TYPE_Z9001, FALSE, FALSE, TRUE, 0)})
    /\ [][NextTop]_vars
    /\ WF_vars(KctapBlockOn({0}) \/ KctapReturn)

----------------------------------------------------------------------------
(* Terms of the properties *)

\* the last public call was fn and it has returned
Returned(fn) == pc = "idle" /\ ret.fn = fn /\ hist.fn = fn

\* the bytes handed to the last z9001_quickload
Data == ImageBytes(img)

\* the address of the CPU's next opcode fetch, -1 when no fetch is due
NextFetch(s) == IF s.cpu.step = "fetch" THEN s.cpu.pc ELSE -1

\* A, BC, DE, HL and their shadow registers are zero
RegsCleared(cpu) ==
    /\ cpu.a = 0 /\ cpu.bc = 0 /\ cpu.de = 0 /\ cpu.hl = 0
    /\ cpu.af2 = 0 /\ cpu.bc2 = 0 /\ cpu.de2 = 0 /\ cpu.hl2 = 0

\* the file formats as the documentation describes them: the KC TAP signature,
\* a name of 7-bit characters, and the header fields found `base` bytes into
\* the data with the conditions they have to meet
HasSignature(d) == Len(d) >= 16 /\ \A i \in 1..16 : d[i] = KCTAP_SIG[i]

PlainName(d) == Len(d) >= 16 /\ \A i \in 1..16 : d[i] < 128

Fields(d, base) ==
    [ num_addr |-> d[base + 17],
      load |-> d[base + 18] + 256 * d[base + 19],
      end |-> d[base + 20] + 256 * d[base + 21],
      exec |-> d[base + 22] + 256 * d[base + 23] ]

Plausible(d, base) ==
    /\ Len(d) > base + 128
    /\ LET h == Fields(d, base)
       IN  /\ h.num_addr <= 3
           /\ h.load < h.end
           /\ (h.num_addr > 2) => (h.load <= h.exec /\ h.exec <= h.end)
           /\ (h.end - h.load) + base + 128 <= Len(d)

IsTap(d) == HasSignature(d) /\ Plausible(d, 17)

IsKcc(d) == ~IsTap(d) /\ PlainName(d) /\ Plausible(d, 0)

\* the header fields of accepted data
Header(d) == IF IsTap(d) THEN Fields(d, 17) ELSE Fields(d, 0)

\* byte k of the program a KC TAP image carries: the blocks follow the
\* 145-byte header, each is a lead byte and 128 data bytes
TapPayloadOffset(k) == 145 + (k \div 128) * 129 + 1 + (k % 128)

----------------------------------------------------------------------------
(* Properties *)

\* C1: z9001_exec returns the number of ticks it actually executed, which with
\* a debug hook that stops the machine is less than the number asked for
C1_ExecReturnsExecutedTicks ==
    Returned("exec") => ret.val = hist.ticks

\* C2: z9001_quickload of data without the KC TAP signature that passes the KCC
\* checks returns true, and the memory from load_addr up to end_addr holds the
\* bytes that follow the 128-byte header
C2_KccLoadSucceeds ==
    (Returned("quickload") /\ IsKcc(Data)) =>
        /\ ret.ok
        /\ LET h == Fields(Data, 0)
           IN  \A a \in h.load..(h.end - 1) :
                   Writable(sys.mem, a) =>
                       RamByte(sys.ram, a) = Data[128 + (a - h.load) + 1]

\* C3: after z9001_quickload has accepted an image with more than two addresses
\* the registers A, BC, DE, HL and their shadows are zero and the next opcode
\* fetch is at the image's execute address
C3_AcceptedImageStarts ==
    (Returned("quickload") /\ (IsTap(Data) \/ IsKcc(Data)) /\ Header(Data).num_addr > 2) =>
        /\ RegsCleared(sys.cpu)
        /\ NextFetch(sys) = Header(Data).exec

\* C4: after a successful z9001_quickload of a KC TAP image the memory in
\* [load_addr, end_addr) holds the payload without the block lead bytes, and
\* every byte outside that range is what it was before the call
C4_TapLoadsExactRange ==
    (Returned("quickload") /\ ret.ok /\ IsTap(Data)) =>
        LET h == Fields(Data, 17)
        IN  /\ \A a \in h.load..(h.end - 1) :
                   Writable(sys.mem, a) =>
                       /\ TapPayloadOffset(a - h.load) < Len(Data)
                       /\ RamByte(sys.ram, a) = Data[TapPayloadOffset(a - h.load) + 1]
            /\ \A a \in (DOMAIN sys.ram) \cup (DOMAIN pre.ram) :
                   ~(h.load <= a /\ a < h.end) =>
                       RamByte(sys.ram, a) = RamByte(pre.ram, a)

\* C5: z9001_quickload of data that is of neither format or fails a
\* plausibility check returns false and changes nothing of the instance
C5_RejectedDataChangesNothing ==
    (Returned("quickload") /\ ~IsTap(Data) /\ ~IsKcc(Data)) =>
        /\ ~ret.ok
        /\ sys = pre

C5_Witness ==
    /\ Returned("quickload") /\ ~IsTap(Data) /\ ~IsKcc(Data)
    /\ Len(Data) > 128 /\ PlainName(Data)
    /\ Fields(Data, 0).load < Fields(Data, 0).end
    /\ ~ret.ok

\* C6: no data is accepted by both _z9001_is_valid_kctap and
\* _z9001_is_valid_kcc, so that z9001_quickload, which asks for KC TAP first,
\* runs the one loader whose check accepts the data
C6_FormatsExclusive ==
    (hist.fn = "quickload") =>
        /\ ~(_z9001_is_valid_kctap(Data) /\ _z9001_is_valid_kcc(Data))
        /\ _z9001_is_valid_kctap(Data) => hist.ran = {"kctap"}
        /\ _z9001_is_valid_kcc(Data) => hist.ran = {"kcc"}

C6_Witness ==
    /\ Returned("quickload") /\ hist.ran = {"kctap"}
    /\ HasSignature(Data)
    /\ Fields(Data, 0).num_addr <= 3
    /\ Fields(Data, 0).load < Fields(Data, 0).end
    /\ (Fields(Data, 0).end - Fields(Data, 0).load) + 128 <= Len(Data)

\* C7: z9001_quickload of an accepted image with at most two addresses leaves
\* the CPU registers and the pins as they were
C7_NoExecAddressKeepsCpu ==
    (Returned("quickload") /\ (IsTap(Data) \/ IsKcc(Data)) /\ Header(Data).num_addr <= 2) =>
        /\ sys.cpu = pre.cpu
        /\ sys.pins = pre.pins

C7_Witness ==
    /\ Returned("quickload") /\ IsTap(Data) /\ Header(Data).num_addr = 2
    /\ ret.ok
    /\ sys.ram # pre.ram

\* C8: z9001_load_snapshot with a version other than Z9001_SNAPSHOT_VERSION
\* returns false and leaves the instance as it was
C8_WrongVersionRejected ==
    (Returned("load_snapshot") /\ hist.arg # Z9001_SNAPSHOT_VERSION) =>
        /\ ~ret.ok
        /\ sys = pre

C8_Witness ==
    /\ Returned("load_snapshot") /\ hist.arg # Z9001_SNAPSHOT_VERSION
    /\ ~ret.ok
    /\ snap.have
    /\ SnapshotOnLoad(snap.dst, sys) # sys

\* C9: z9001_load_snapshot of the snapshot just saved, with the version
\* z9001_save_snapshot returned, returns true and leaves the instance in the
\* state it was saved in, ctc_zcto2, blink_counter and blink_flip_flop included
C9_SaveLoadRoundTrip ==
    (Returned("load_snapshot") /\ hist.immediate /\ hist.arg = snap.version) =>
        /\ ret.ok
        /\ sys = pre

C9_Witness ==
    /\ Returned("load_snapshot") /\ hist.immediate /\ hist.arg = snap.version
    /\ ret.ok
    /\ sys.blink_counter > 0
    /\ sys.debug.func

\* C10: z9001_exec(sys, 0) right after z9001_reset runs no tick and returns 0,
\* and the next opcode fetch is at 0xF000
C10_ResetThenExecZero ==
    (Returned("exec") /\ hist.arg = 0 /\ hist.prev = "reset") =>
        /\ ret.val = 0
        /\ hist.ticks = 0
        /\ NextFetch(sys) = 61440

C10_Witness ==
    /\ Returned("exec") /\ hist.arg = 0 /\ hist.prev = "reset"
    /\ ret.val = 0
    /\ sys.ram # EmptyRam

\* the instance z9001_init leaves for the configuration s was built with
PowerOn(s) ==
    z9001_init(Desc(s.type, s.debug.func,
                    s.type = TYPE_KC87 \/ s.z9001_has_basic_rom,
                    s.audio.callback, s.audio.num_samples))

\* C11: after z9001_reset the CPU, both PIOs, the CTC with its saved ZCTO2
\* latch ctc_zcto2 and the beeper are in the state z9001_init leaves them in
C11_ResetIsPowerOn ==
    Returned("reset") =>
        /\ sys.cpu = PowerOn(sys).cpu
        /\ sys.pio1 = PowerOn(sys).pio1
        /\ sys.pio2 = PowerOn(sys).pio2
        /\ sys.ctc = PowerOn(sys).ctc
        /\ sys.ctc_zcto2 = PowerOn(sys).ctc_zcto2
        /\ sys.beeper = PowerOn(sys).beeper

\* C12: z9001_reset leaves the RAM contents, the ROM contents, the font ROM
\* and the memory map as they were
C12_ResetKeepsMemory ==
    Returned("reset") =>
        /\ sys.ram = pre.ram
        /\ sys.rom = pre.rom
        /\ sys.rom_font = pre.rom_font
        /\ sys.mem = pre.mem

C12_Witness ==
    /\ Returned("reset")
    /\ sys.ram # EmptyRam
    /\ sys.cpu # pre.cpu

\* C13: every public operation runs only on an instance that is valid at
\* entry, and an instance that was discarded stays discarded
C13_OperationsNeedValid ==
    (hist.fn # "none") =>
        /\ pre.valid
        /\ (~pre.valid => ~sys.valid)

\* C15: the memory map z9001_init builds is the map of the instance in every
\* state reached afterwards: no call leaves another map than it found
C15_MemoryMapFixed ==
    sys.mem.map = pre.mem.map

\* C14: after every tick the audio write cursor is within the buffer,
\* 0 <= sample_pos < num_samples <= 1024, and the audio callback has been
\* invoked once for each num_samples samples appended: the cursor counts the
\* samples since the last full buffer
C14_AudioCursorAndFlush ==
    /\ 0 <= sys.audio.sample_pos
    /\ sys.audio.sample_pos < sys.audio.num_samples
    /\ sys.audio.num_samples <= 1024
    /\ sys.audio.sample_pos = hist.samples % sys.audio.num_samples
    /\ hist.flushes = IF sys.audio.callback
                      THEN hist.samples \div sys.audio.num_samples
                      ELSE 0

C14_Witness ==
    /\ sys.audio.callback
    /\ sys.audio.num_samples = 2
    /\ hist.samples = 5
    /\ hist.flushes = 2
    /\ sys.audio.sample_pos = 1

\* the step is one pass of the tick loop of z9001_exec
TickStep == pc = "exec" /\ pc' = "exec" /\ frame'.tick = frame.tick + 1

\* the step is the return of z9001_exec
ExecReturnStep == pc = "exec" /\ pc' = "idle"

\* C16 as claimed: the blink counter is reloaded with clock/25/8 = 12288, which
\* it never exceeds, and only bit 7 of the blink phase byte changes
C16_BlinkPeriodClaimed ==
    /\ sys.blink_counter <= (2457600 \div 25) \div 8
    /\ sys.blink_flip_flop \in {0, 128}

\* C16 amended: in every tick the blink counter is decremented, and when it is
\* at zero it is reloaded with (clock * 8) / 25 = 786432 and bit 7 of the blink
\* phase byte is flipped; the counter never exceeds the reload value and no
\* other bit of the blink phase byte changes
C16_BlinkPeriod ==
    [][ /\ sys'.blink_counter \in 0..((2457600 * 8) \div 25)
        /\ sys'.blink_flip_flop \in {0, 128}
        /\ IF TickStep
           THEN IF sys.blink_counter = 0
                THEN /\ sys'.blink_counter = (2457600 * 8) \div 25
                     /\ sys'.blink_flip_flop = 128 - sys.blink_flip_flop
                ELSE /\ sys'.blink_counter = sys.blink_counter - 1
                     /\ sys'.blink_flip_flop = sys.blink_flip_flop
           ELSE /\ sys'.blink_counter = sys.blink_counter
                /\ sys'.blink_flip_flop = sys.blink_flip_flop ]_vars

C16_Witness ==
    /\ sys.blink_flip_flop = 128
    /\ sys.blink_counter = ((2457600 * 8) \div 25) - 3
    /\ hist.prev = "reset"

\* C18: in every tick the components are advanced in the order CPU, memory,
\* PIO1, PIO2, CTC, beeper, blink counter; IEIO is asserted on PIO1's input,
\* PIO2 is ticked with the IEIO PIO1 returned and the CTC with the IEIO PIO2
\* returned
C18_TickOrderAndDaisyChain ==
    (hist.last.order # <<>>) =>
        /\ hist.last.order = <<"cpu", "mem", "pio1", "pio2", "ctc", "beeper", "blink">>
        /\ "IEIO" \in hist.last.pio1_in
        /\ ("IEIO" \in hist.last.pio2_in) <=> ("IEIO" \in hist.last.pio1_out)
        /\ ("IEIO" \in hist.last.ctc_in) <=> ("IEIO" \in hist.last.pio2_out)

C18_Witness ==
    /\ hist.last.order # <<>>
    /\ "IEIO" \notin hist.last.pio1_out
    /\ "IEIO" \notin hist.last.ctc_in

\* C19: in every tick after the first, the first tick of a later z9001_exec
\* included, CLKTRG3 is asserted on the CTC's input if and only if the CTC
\* returned ZCTO2 in the tick before; ctc_zcto2 holds the ZCTO2 output of the
\* most recent tick
C19_CascadeOneTickDelay ==
    [][ IF TickStep
        THEN /\ (hist.last.order # <<>>) =>
                    (("CLKTRG3" \in hist'.last.ctc_in) <=> ("ZCTO2" \in hist.last.ctc_out))
             /\ sys'.ctc_zcto2 = hist'.last.ctc_out \cap {"ZCTO2"}
        ELSE /\ hist'.last = hist.last
             /\ sys'.ctc_zcto2 = sys.ctc_zcto2 ]_vars

C19_Witness ==
    /\ pc = "exec" /\ hist.ticks = 1 /\ hist.prev = "exec"
    /\ "CLKTRG3" \in hist.last.ctc_in
    /\ sys.ctc_zcto2 = {}

\* C20: with a debug hook z9001_exec runs a tick only while the stopped flag is
\* clear, invokes the hook once after each tick with the pins of that tick, and
\* stores in sys->pins the pins of the last tick executed (those it found, if
\* it executed none)
C20_DebugHookStops ==
    [][ /\ (TickStep /\ sys.debug.func) =>
               /\ ~stopped
               /\ hist'.hooks = hist.hooks + 1
               /\ hist'.hook_pins = frame'.pins
        /\ (ExecReturnStep /\ sys.debug.func) =>
               /\ hist.hooks = hist.ticks
               /\ sys'.pins = IF hist.ticks = 0 THEN pre.pins ELSE hist.hook_pins ]_vars

C20_Witness ==
    /\ Returned("exec") /\ sys.debug.func
    /\ stopped
    /\ hist.arg = 1 /\ hist.hooks = 1
    /\ sys.pins = hist.hook_pins /\ sys.pins # pre.pins

\* pixel i (0: leftmost) of a glyph row p in the colors fg on bg
Pixel(p, i, fg, bg) == IF Bit(p, 7 - i) = 1 THEN fg ELSE bg

\* C17: of the 8 bytes the decoder writes for a glyph row p and a color byte c,
\* byte i is the foreground index (c >> 4) & 7 where bit 7 - i of p is set and
\* the background index c & 7 elsewhere, a palette index in 0..7; without
\* blinking (the blink phase off, or bit 7 of the cell's color byte clear) the
\* rows of a cell are the rows of its glyph in the font, in the cell's colors on
\* the KC87 and in 7 on 0 on the Z9001
C17_DecodePixels ==
    /\ (pc = "decoded" /\ frame.op = "pixels") =>
           \A i \in 0..7 :
               /\ frame.dst[i + 1] =
                      Pixel(frame.pixels, i, (frame.colors \div 16) % 8, frame.colors % 8)
               /\ frame.dst[i + 1] \in 0..7
    /\ (pc = "decoded" /\ frame.op = "cell" /\ (frame.blink = 0 \/ frame.colors < 128)) =>
           \A py \in 0..7, i \in 0..7 :
               frame.rows[py + 1][i + 1] =
                   IF sys.type = TYPE_KC87
                   THEN Pixel(FontByte(frame.chr * 8 + py), i,
                              (frame.colors \div 16) % 8, frame.colors % 8)
                   ELSE Pixel(FontByte(frame.chr * 8 + py), i, 7, 0)

C17_Witness ==
    /\ pc = "decoded" /\ frame.op = "cell" /\ frame.blink = 0
    /\ frame.chr = 65 /\ frame.colors = 53 /\ sys.type = TYPE_KC87
    /\ \E i, j \in 1..8 : frame.rows[1][i] = 3 /\ frame.rows[1][j] = 5

\* the video and colour RAM windows of the KC87: 0xE800..0xEFFF
InRamWindow(a) == 59392 <= a /\ a <= 61439

CellRendered(fg, bg) ==
    \A py \in 0..7, i \in 0..7 :
        frame.rows[py + 1][i + 1] = Pixel(FontByte(frame.chr * 8 + py), i, fg, bg)

\* C22: the decoder renders a cell with foreground and background exchanged
\* if the machine is a KC87, bit 7 of the cell's color byte is set and bit 7 of
\* the blink phase byte is set; in every other case with the colors unswapped:
\* those of the color byte on the KC87, 7 on 0 on the Z9001
C22_BlinkSwapsColors ==
    (pc = "decoded" /\ frame.op = "cell") =>
        LET fg == (frame.colors \div 16) % 8
            bg == frame.colors % 8
        IN  IF sys.type = TYPE_KC87
            THEN IF frame.colors >= 128 /\ frame.blink >= 128
                 THEN CellRendered(bg, fg)
                 ELSE CellRendered(fg, bg)
            ELSE CellRendered(7, 0)

\* a blinking cell of a KC87 in the colors 1 on 4, decoded in the swapped
\* phase: the first pixel row of its glyph shows both colors
C22_Witness ==
    /\ pc = "decoded" /\ frame.op = "cell" /\ sys.type = TYPE_KC87
    /\ frame.colors = 156 /\ frame.blink = 128 /\ frame.chr = 65
    /\ \E i, j \in 0..7 :
           /\ Bit(FontByte(frame.chr * 8), 7 - i) = 1 /\ frame.rows[1][i + 1] = 4
           /\ Bit(FontByte(frame.chr * 8), 7 - j) = 0 /\ frame.rows[1][j + 1] = 1

\* the chip-enable pins of the PIOs and the CTC
ChipEnables == {"PIO_CE", "CTC_CE"}

\* the chip was ticked with a chip-enable on its pins
Enabled(pins_in) == pins_in \cap ChipEnables # {}

\* C23: in every tick a chip is ticked with chip-enable exactly when IORQ is
\* asserted, M1 is not, and the low address byte lies in its range (0x80..0x87
\* the CTC, 0x88..0x8F PIO1, 0x90..0x97 PIO2), so at most one of the three is
\* enabled, none in an interrupt acknowledge, and no chip sees the chip-enable
\* of the one before it; no chip-enable is left on the pins after the tick
C23_OneChipEnable ==
    [][ TickStep =>
            LET p == frame'.pins
                low == p.addr % 256
                io == "IORQ" \in p.ctrl /\ "M1" \notin p.ctrl
                pio1 == Enabled(hist'.last.pio1_in)
                pio2 == Enabled(hist'.last.pio2_in)
                ctc == Enabled(hist'.last.ctc_in)
            IN  /\ ctc <=> (io /\ low \in 128..135)
                /\ pio1 <=> (io /\ low \in 136..143)
                /\ pio2 <=> (io /\ low \in 144..151)
                /\ ~(pio1 /\ pio2) /\ ~(pio1 /\ ctc) /\ ~(pio2 /\ ctc)
                /\ p.ctrl \cap ChipEnables = {} ]_vars

\* a tick with an I/O read of port 0x8F: PIO1 is enabled, PIO2 and the CTC
\* are not
C23_Witness ==
    /\ pc = "exec" /\ hist.ticks = 4
    /\ frame.pins.addr = 143 /\ frame.pins.ctrl = {"IORQ", "RD", "IEIO"}
    /\ Enabled(hist.last.pio1_in)
    /\ ~Enabled(hist.last.pio2_in) /\ ~Enabled(hist.last.ctc_in)

\* C24: z9001_quickload terminates for every accepted input: a copy loop that
\* was entered is left, also for an image that ends within 128 bytes of the
\* top of the address space
C24_QuickloadTerminates == (pc = "kctap") ~> (pc = "idle")

\* the step is one pass of the copy loop of _z9001_load_kctap
KctapBlockStep == pc = "kctap" /\ pc' = "kctap" /\ frame'.ptr # frame.ptr

\* the step is a z9001_quickload that runs _z9001_load_kcc
KccLoadStep == hist'.fn = "quickload" /\ hist'.fmt = "kcc" /\ nloads' = nloads + 1

\* C25: a loader reads the data of an accepted image only at offsets below
\* data.size
C25_ReadsInsideData ==
    [][ /\ KctapBlockStep =>
               \A off \in KctapReads(frame) : off < Len(ImageBytes(img))
        /\ KccLoadStep =>
               \A off \in KccReads(ImageBytes(img')) : off < Len(ImageBytes(img')) ]_vars

\* the cells of the decoded frame fb are those of the 40x24 window of ram at base
ShowsWindow(cells, ram, base) ==
    /\ \A a \in DOMAIN ram : InWindow(a, base) => (a \in DOMAIN cells /\ cells[a] = ram[a])
    /\ \A a \in DOMAIN cells : a \in DOMAIN ram /\ InWindow(a, base)

\* C26: the tick loop of z9001_exec leaves the keyboard timers and the
\* framebuffer alone; after the loop, however many ticks it ran, the keyboard
\* time is advanced once by the requested duration and the framebuffer is
\* decoded from all 40x24 cells of the character memory, and on the KC87 of
\* the color memory, as they are when z9001_exec returns
C26_ExecEndsWithFrame ==
    [][ /\ TickStep => (sys'.kbd.cur_time = sys.kbd.cur_time /\ sys'.fb = sys.fb)
        /\ ExecReturnStep =>
               /\ sys'.kbd.cur_time = sys.kbd.cur_time + frame.micro_seconds
               /\ sys'.ram = sys.ram
               /\ sys'.fb.drawn
               /\ ShowsWindow(sys'.fb.vidmem, sys'.ram, 60416)
               /\ sys'.fb.font = sys'.rom_font
               /\ IF sys'.type = TYPE_KC87
                  THEN /\ ShowsWindow(sys'.fb.colmem, sys'.ram, 59392)
                       /\ sys'.fb.blink = Bit(sys'.blink_flip_flop, 7)
                  ELSE sys'.fb.colmem = EmptyRam /\ sys'.fb.blink = 0 ]_vars

\* a z9001_exec of 2 requested ticks that the debug hook stopped after the
\* first has returned; the frame shows a character written before this call
C26_Witness ==
    /\ Returned("exec") /\ sys.debug.func /\ stopped
    /\ hist.arg = 1 /\ hist.ticks = 1
    /\ sys.kbd.cur_time = pre.kbd.cur_time + 1
    /\ 60416 \in DOMAIN sys.ram
    /\ sys.fb.drawn /\ 60416 \in DOMAIN sys.fb.vidmem /\ sys.fb.vidmem[60416] = 65

====
